---- MODULE Spec2Model ----
(***************************************************************************)
(* Model of the polybot core: the in-memory MarketStore, the               *)
(* ArbitrageDetector, the ArbitrageService, the PaperExecutionEngine and   *)
(* the CopyTradingService.                                                 *)
(*                                                                         *)
(* Numbers.  The program computes with JavaScript numbers.  The model      *)
(* computes with exact rationals <<n, d>> (d > 0, lowest terms); the       *)
(* value null (and undefined) is the pair <<0, 0>>.  Prices are written    *)
(* in thousandths, P(450) = 0.45.                                          *)
(*                                                                         *)
(* Time.  Date.now() is the variable now, counted in ticks of one stale    *)
(* threshold (staleThresholdMs = 30000 ms = 1 tick).                       *)
(*                                                                         *)
(* Scheduling.  Every handler runs to completion up to its next await;     *)
(* at an await any other handler may run (timers, feed messages, API       *)
(* requests).  uuid values, wall-clock timestamps of records and log       *)
(* lines are not modelled; OutcomePrices.lastUpdate is written by the      *)
(* store and read nowhere, and is left out.                                *)
(***************************************************************************)
EXTENDS Integers, Sequences, FiniteSets, TLC

VARIABLES
  now,                \* Date.now()
  markets,            \* MarketStore.markets, a Map: records in insertion order
  onUpdateCallbacks,  \* MarketStore.onUpdateCallbacks, a Set: insertion order
  config,             \* ArbitrageDetector.config
  trackedMarkets,     \* ArbitrageDetector.trackedMarkets
  isRunning,          \* ArbitrageService.isRunning
  scanInterval,       \* ArbitrageService.scanInterval is armed
  scanDebounceTimer,  \* ArbitrageService.scanDebounceTimer: a handle, 0 for null
  timeouts,           \* the setTimeout callbacks pending in the event loop
  inflight,           \* executeArbitrage calls suspended at an await
  closing,            \* closePosition calls suspended at an await
  copyTrading,        \* the CopyTradingService object's fields
  cycles,             \* pollForTrades calls suspended at network I/O or a sleep
  activityFeed,       \* what the activity API returns for each user
  rateLimitRequests,  \* CopyTradingService.rateLimitRequests: request times
  limiterCalls,       \* waitForRateLimit calls suspended in their sleep
  requests,           \* the times of the requests handed to fetch()
  currentBalance,     \* PaperExecutionEngine.currentBalance
  positions,          \* PaperExecutionEngine.positions
  realizedPnL,        \* PaperExecutionEngine.realizedPnL
  tradeHistory,       \* PaperExecutionEngine.tradeHistory
  snapshot,           \* opportunities a caller holds from scanOpportunities()
  last                \* the last handler run and what it returned (observation)

limiterVars == <<rateLimitRequests, limiterCalls, requests>>

copyVars == <<copyTrading, cycles, activityFeed, limiterVars>>

vars == <<now, markets, onUpdateCallbacks, config, trackedMarkets, isRunning,
          scanInterval, scanDebounceTimer, timeouts, inflight, closing,
          currentBalance, positions, realizedPnL, tradeHistory, snapshot,
          last,
          copyVars>>

storeVars   == <<markets, onUpdateCallbacks>>
serviceVars == <<isRunning, scanInterval, scanDebounceTimer, timeouts,
                 inflight>>
engineVars  == <<currentBalance, positions, realizedPnL, tradeHistory>>

---------------------------------------------------------------------------
(* Bounds of the model *)

MaxTime == 2        \* the clock stops here
MaxFills == 3       \* fills recorded before the engine takes no more orders
MaxInFlight == 1    \* executeArbitrage calls suspended at the same time
MaxCycles == 2      \* pollForTrades cycles in flight at the same time

---------------------------------------------------------------------------
(* Exact rational arithmetic standing for JavaScript numbers *)

\* Each operator takes the values of its operands once: { e : x \in {a} }
\* names the value of a, and CHOOSE picks the one element of the set.
RECURSIVE Gcd(_, _)
Gcd(a, b) ==
  CHOOSE g \in { IF y = 0 THEN x ELSE Gcd(y, x % y) : x \in {a}, y \in {b} } :
     TRUE

Abs(x) == IF x < 0 THEN -x ELSE x

Reduce(n, d, g) ==
  IF d < 0 THEN <<(-n) \div g, (-d) \div g>> ELSE <<n \div g, d \div g>>

Rat(n, d) ==
  CHOOSE r \in { Reduce(x, y, Gcd(Abs(x), Abs(y))) : x \in {n}, y \in {d} } :
     TRUE

Null == <<0, 0>>
Zero == <<0, 1>>
One  == <<1, 1>>
P(mills) == Rat(mills, 1000)
Usd(n) == <<n, 1>>

RAdd(a, b) ==
  CHOOSE r \in { Rat(x[1] * y[2] + y[1] * x[2], x[2] * y[2]) :
                   x \in {a}, y \in {b} } : TRUE
RSub(a, b) ==
  CHOOSE r \in { Rat(x[1] * y[2] - y[1] * x[2], x[2] * y[2]) :
                   x \in {a}, y \in {b} } : TRUE
RMul(a, b) ==
  CHOOSE r \in { Rat(x[1] * y[1], x[2] * y[2]) : x \in {a}, y \in {b} } :
     TRUE
RDiv(a, b) ==
  CHOOSE r \in { Rat(x[1] * y[2], x[2] * y[1]) : x \in {a}, y \in {b} } :
     TRUE
RLt(a, b)  ==
  CHOOSE r \in { x[1] * y[2] < y[1] * x[2] : x \in {a}, y \in {b} } : TRUE
RLe(a, b)  ==
  CHOOSE r \in { x[1] * y[2] <= y[1] * x[2] : x \in {a}, y \in {b} } : TRUE
RMin(a, b) ==
  CHOOSE r \in { IF RLt(y, x) THEN y ELSE x : x \in {a}, y \in {b} } : TRUE
RMax(a, b) ==
  CHOOSE r \in { IF RLt(x, y) THEN y ELSE x : x \in {a}, y \in {b} } : TRUE

\* JavaScript truthiness of a number-or-null: null, undefined and 0 are falsy
Falsy(x) == x = Null \/ x = Zero
\* a || b
OrElse(a, b) == IF Falsy(a) THEN b ELSE a

NoValue == [null |-> TRUE]     \* undefined / null for an object

---------------------------------------------------------------------------
(* MarketStore *)

MarketIds == {"m1", "m2"}
Outcomes == {"YES", "NO"}

staleThresholdMs == 1

createEmptyPrices == [bid |-> Null, ask |-> Null]

isStale(lastUpdate, t) == t - lastUpdate > staleThresholdMs

\* position of the key in the Map, 0 when absent
KeyIndex(ms, id) ==
  IF \E i \in 1..Len(ms) : ms[i].marketId = id
  THEN CHOOSE i \in 1..Len(ms) : ms[i].marketId = id
  ELSE 0

HasMarket(ms, id) == KeyIndex(ms, id) # 0

\* the store after getMarket(id): isStale is recomputed on read
TouchMarket(ms, id, t) ==
  [i \in 1..Len(ms) |->
     IF ms[i].marketId = id
     THEN [ms[i] EXCEPT !.isStale = isStale(ms[i].lastUpdate, t)]
     ELSE ms[i]]

\* getMarket(id) on a store already touched
getMarket(ms, id, t) ==
  IF HasMarket(ms, id) THEN TouchMarket(ms, id, t)[KeyIndex(ms, id)] ELSE NoValue

\* getAllMarkets(): every market, isStale recomputed, in insertion order
getAllMarkets(ms, t) ==
  [i \in 1..Len(ms) |-> [ms[i] EXCEPT !.isStale = isStale(ms[i].lastUpdate, t)]]

\* the filter of getArbitrageOpportunities with the staleness test left out
ArbitrageFilterIgnoringStale(market, feeBuffer) ==
  /\ market.yesPrices.ask # Null
  /\ market.noPrices.ask # Null
  /\ RLt(RAdd(market.yesPrices.ask, market.noPrices.ask),
         RSub(One, feeBuffer))

\* the filter of getArbitrageOpportunities, on a market getAllMarkets returned
ArbitrageFilter(market, feeBuffer) ==
  /\ market.yesPrices.ask # Null
  /\ market.noPrices.ask # Null
  /\ RLt(RAdd(market.yesPrices.ask, market.noPrices.ask),
         RSub(One, feeBuffer))
  /\ ~market.isStale

\* getArbitrageOpportunities(feeBuffer): the markets kept, in store order
getArbitrageOpportunities(ms, feeBuffer, t) ==
  SelectSeq(getAllMarkets(ms, t), LAMBDA m : ArbitrageFilter(m, feeBuffer))

\* extractBestBid / extractBestAsk: the first level's price, null for an
\* empty side; a level is given by its parsed price
extractBest(levels) == IF Len(levels) = 0 THEN Null ELSE levels[1]

Max2(a, b) == IF a >= b THEN a ELSE b

\* the Map after updateOrderBook(update), callbacks aside
MergeUpdate(ms, u, t) ==
  LET created == [marketId |-> u.marketId,
                  yesPrices |-> createEmptyPrices,
                  noPrices |-> createEmptyPrices,
                  lastUpdate |-> u.timestamp,
                  isStale |-> FALSE]
      ms1 == IF HasMarket(ms, u.marketId) THEN ms ELSE Append(ms, created)
      k == KeyIndex(ms1, u.marketId)
      prices == [bid |-> extractBest(u.bids), ask |-> extractBest(u.asks)]
      m1 == IF u.outcome = "YES"
            THEN [ms1[k] EXCEPT !.yesPrices = prices]
            ELSE [ms1[k] EXCEPT !.noPrices = prices]
      lu == Max2(m1.lastUpdate, u.timestamp)
      m2 == [m1 EXCEPT !.lastUpdate = lu, !.isStale = isStale(lu, t)]
  IN  [ms1 EXCEPT ![k] = m2]

\* the guard of triggerUpdateCallbacks in updateOrderBook
BothAsksPresent(m) == m.yesPrices.ask # Null /\ m.noPrices.ask # Null

---------------------------------------------------------------------------
(* ArbitrageDetector *)

DefaultConfig ==
  [minProfitThreshold |-> P(10), feeBuffer |-> P(20), safetyMargin |-> P(5),
   maxPositionSize |-> Usd(100), enabled |-> FALSE]

\* detectArbitrage without its check that both asks are > 0
detectArbitrageNoSignCheck(market, cfg) ==
  LET yesAsk == market.yesPrices.ask
      noAsk == market.noPrices.ask
      totalCost == RAdd(yesAsk, noAsk)
      requiredTotal == RSub(RSub(One, cfg.feeBuffer), cfg.safetyMargin)
      profitMargin == RSub(One, totalCost)
      profitAfterFees == RSub(profitMargin, cfg.feeBuffer)
  IN  IF yesAsk = Null \/ noAsk = Null THEN NoValue
      ELSE IF RLe(requiredTotal, totalCost) THEN NoValue
      ELSE IF RLt(profitAfterFees, cfg.minProfitThreshold) THEN NoValue
      ELSE [marketId |-> market.marketId,
            yesAsk |-> yesAsk,
            noAsk |-> noAsk,
            totalCost |-> totalCost,
            profitMargin |-> profitMargin,
            profitAfterFees |-> profitAfterFees]

detectArbitrage(market, cfg) ==
  LET yesAsk == market.yesPrices.ask
      noAsk == market.noPrices.ask
      totalCost == RAdd(yesAsk, noAsk)
      requiredTotal == RSub(RSub(One, cfg.feeBuffer), cfg.safetyMargin)
      profitMargin == RSub(One, totalCost)
      profitAfterFees == RSub(profitMargin, cfg.feeBuffer)
  IN  IF yesAsk = Null \/ noAsk = Null THEN NoValue
      ELSE IF RLe(yesAsk, Zero) \/ RLe(noAsk, Zero) THEN NoValue
      ELSE IF RLe(requiredTotal, totalCost) THEN NoValue
      ELSE IF RLt(profitAfterFees, cfg.minProfitThreshold) THEN NoValue
      ELSE [marketId |-> market.marketId,
            yesAsk |-> yesAsk,
            noAsk |-> noAsk,
            totalCost |-> totalCost,
            profitMargin |-> profitMargin,
            profitAfterFees |-> profitAfterFees]

\* Array.prototype.sort with (a, b) => b.profitAfterFees - a.profitAfterFees:
\* stable, descending; o goes behind every element that is not smaller
RECURSIVE InsertRanked(_, _)
InsertRanked(sorted, o) ==
  IF sorted = <<>> THEN <<o>>
  ELSE IF RLt(Head(sorted).profitAfterFees, o.profitAfterFees)
       THEN <<o>> \o sorted
       ELSE <<Head(sorted)>> \o InsertRanked(Tail(sorted), o)

RECURSIVE SortRanked(_)
SortRanked(s) ==
  IF s = <<>> THEN <<>>
  ELSE InsertRanked(SortRanked(SubSeq(s, 1, Len(s) - 1)), s[Len(s)])

\* the loop of scanOpportunities: markets in order, stale and tracked skipped
RECURSIVE CollectOpportunities(_, _, _)
CollectOpportunities(ms, tracked, cfg) ==
  IF ms = <<>> THEN <<>>
  ELSE LET market == Head(ms)
           rest == CollectOpportunities(Tail(ms), tracked, cfg)
           opportunity == detectArbitrage(market, cfg)
       IN  IF market.isStale THEN rest
           ELSE IF market.marketId \in tracked THEN rest
           ELSE IF opportunity # NoValue THEN <<opportunity>> \o rest
           ELSE rest

\* scanOpportunities without its skip of tracked markets
scanOpportunitiesIgnoringTracked(ms, tracked, cfg, t) ==
  SortRanked(CollectOpportunities(getAllMarkets(ms, t), {}, cfg))

scanOpportunities(ms, tracked, cfg, t) ==
  SortRanked(CollectOpportunities(getAllMarkets(ms, t), tracked, cfg))

\* totalSize without the cap at maxPositionSize
PlanTotalSizeUncapped(opportunity, cfg) ==
  RDiv(RMul(cfg.maxPositionSize, opportunity.profitAfterFees),
       cfg.minProfitThreshold)

\* totalSize of createExecutionPlan
PlanTotalSize(opportunity, cfg) ==
  RMin(cfg.maxPositionSize,
       RDiv(RMul(cfg.maxPositionSize, opportunity.profitAfterFees),
            cfg.minProfitThreshold))

createExecutionPlan(opportunity, ms, cfg, t) ==
  LET totalSize == PlanTotalSize(opportunity, cfg)
      yesSize == RDiv(totalSize, Usd(2))
      noSize == RDiv(totalSize, Usd(2))
      currentMarket == getMarket(ms, opportunity.marketId, t)
      currentYesAsk == currentMarket.yesPrices.ask
      currentNoAsk == currentMarket.noPrices.ask
      currentTotalCost == RAdd(currentYesAsk, currentNoAsk)
      currentProfitAfterFees ==
        RSub(RSub(RSub(One, currentTotalCost), cfg.feeBuffer), cfg.safetyMargin)
  IN  IF currentMarket = NoValue THEN NoValue
      ELSE IF currentYesAsk = Null \/ currentNoAsk = Null THEN NoValue
      ELSE IF RLt(currentProfitAfterFees, cfg.minProfitThreshold) THEN NoValue
      ELSE [marketId |-> opportunity.marketId,
            yesSize |-> yesSize,
            noSize |-> noSize,
            yesPrice |-> currentYesAsk,
            noPrice |-> currentNoAsk,
            totalCost |-> RAdd(yesSize, noSize),
            expectedProfit |-> RMul(RAdd(yesSize, noSize), currentProfitAfterFees)]

---------------------------------------------------------------------------
(* PaperExecutionEngine *)

CAPITAL == 1000         \* config.capital, the default of CAPITAL
HistoryCap == 1000      \* tradeHistory keeps the last 1000 records

NoPosition == NoValue

\* the object updatePosition creates for a market without a position
NewPosition ==
  [yesTokens |-> Zero, noTokens |-> Zero,
   yesEntryPrice |-> Zero, noEntryPrice |-> Zero,
   yesCurrentPrice |-> Null, noCurrentPrice |-> Null,
   unrealizedPnL |-> Zero, totalEntryCost |-> Zero]

\* a || b || null
FirstTruthy(a, b) == IF ~Falsy(a) THEN a ELSE IF ~Falsy(b) THEN b ELSE Null

updatePositionPnL(position, ms, id, t) ==
  LET market == getMarket(ms, id, t)
      yesCur == FirstTruthy(market.yesPrices.ask, market.yesPrices.bid)
      noCur == FirstTruthy(market.noPrices.ask, market.noPrices.bid)
      yesValue == RMul(position.yesTokens, OrElse(yesCur, Zero))
      noValue == RMul(position.noTokens, OrElse(noCur, Zero))
      currentValue == RAdd(yesValue, noValue)
  IN  IF market = NoValue
      THEN [position EXCEPT !.yesCurrentPrice = Null,
                            !.noCurrentPrice = Null,
                            !.unrealizedPnL = Zero]
      ELSE [position EXCEPT !.yesCurrentPrice = yesCur,
                            !.noCurrentPrice = noCur,
                            !.unrealizedPnL =
                               RSub(currentValue, position.totalEntryCost)]

\* getPosition(marketId): the positions map after the read (PnL refreshed)
getPosition(pos, ms, id, t) ==
  IF pos[id] = NoPosition THEN pos
  ELSE [pos EXCEPT ![id] = updatePositionPnL(pos[id], ms, id, t)]

\* a buy that takes the fill's own price as the entry price
BuySideLastPrice(tokensHeld, entryPrice, order, tokens) ==
  [tokens |-> RAdd(tokensHeld, tokens),
   entryPrice |-> RDiv(order.size, tokens)]

\* a sell that takes the tokens off without the floor at 0
SellSideUnclamped(tokensHeld, entryPrice, tokens) ==
  [tokens |-> RSub(tokensHeld, tokens), entryPrice |-> entryPrice]

\* the side's tokens and entry price after a fill
BuySide(tokensHeld, entryPrice, order, tokens) ==
  LET totalCost == RAdd(RMul(tokensHeld, entryPrice), order.size)
      held == RAdd(tokensHeld, tokens)
  IN  [tokens |-> held, entryPrice |-> RDiv(totalCost, held)]

SellSide(tokensHeld, entryPrice, tokens) ==
  LET held == RSub(tokensHeld, tokens)
  IN  IF RLe(held, Zero)
      THEN [tokens |-> Zero, entryPrice |-> Zero]
      ELSE [tokens |-> held, entryPrice |-> entryPrice]

\* the positions map after updatePosition(order, price, tokens)
updatePosition(pos, order, price, tokens, ms, t) ==
  LET position == IF pos[order.marketId] = NoPosition
                  THEN NewPosition ELSE pos[order.marketId]
      yes == IF order.side # "YES"
             THEN [tokens |-> position.yesTokens,
                   entryPrice |-> position.yesEntryPrice]
             ELSE IF order.action = "BUY"
                  THEN BuySide(position.yesTokens, position.yesEntryPrice,
                               order, tokens)
                  ELSE SellSide(position.yesTokens, position.yesEntryPrice,
                                tokens)
      no == IF order.side = "YES"
            THEN [tokens |-> position.noTokens,
                  entryPrice |-> position.noEntryPrice]
            ELSE IF order.action = "BUY"
                 THEN BuySide(position.noTokens, position.noEntryPrice,
                              order, tokens)
                 ELSE SellSide(position.noTokens, position.noEntryPrice,
                               tokens)
      p1 == [position EXCEPT
               !.yesTokens = yes.tokens, !.yesEntryPrice = yes.entryPrice,
               !.noTokens = no.tokens, !.noEntryPrice = no.entryPrice,
               !.totalEntryCost =
                  RAdd(RMul(yes.tokens, yes.entryPrice),
                       RMul(no.tokens, no.entryPrice))]
  IN  [pos EXCEPT ![order.marketId] =
         updatePositionPnL(p1, ms, order.marketId, t)]

\* tradeId of the next record: uuidv4() gives each record its own id; the
\* model numbers the records in the order they are written
LastTradeId(history) ==
  IF history = <<>> THEN 0 ELSE history[Len(history)].tradeId

\* push that drops the newest of the old records from a full log
PushTradeDropNewest(history, trade) ==
  LET h == Append(history, trade)
  IN  IF Len(h) > HistoryCap
      THEN SubSeq(history, 1, HistoryCap - 1) \o <<trade>>
      ELSE h

\* push, then keep the last HistoryCap records
PushTrade(history, trade) ==
  LET h == Append(history, trade)
  IN  IF Len(h) > HistoryCap
      THEN SubSeq(h, Len(h) - HistoryCap + 1, Len(h))
      ELSE h

\* the price executeTrade resolves: the limit price when it is truthy,
\* else the store's ask (BUY) or bid (SELL), 0 when that is missing;
\* null when the store has no such market
ResolveFillPrice(order, ms, t) ==
  LET market == getMarket(ms, order.marketId, t)
      prices == IF order.side = "YES" THEN market.yesPrices ELSE market.noPrices
  IN  IF ~Falsy(order.price) THEN order.price
      ELSE IF market = NoValue THEN Null
      ELSE IF order.action = "BUY" THEN OrElse(prices.ask, Zero)
      ELSE OrElse(prices.bid, Zero)

\* a rejection that also records the order in the history
RejectedResultRecorded(order, bal, pos, hist, ms) ==
  [status |-> "rejected", averagePrice |-> Zero,
   currentBalance |-> bal, positions |-> pos,
   tradeHistory |-> Append(hist, [tradeId |-> LastTradeId(hist) + 1,
                                  marketId |-> order.marketId,
                                  side |-> order.side,
                                  action |-> order.action,
                                  size |-> order.size,
                                  price |-> Zero, status |-> "rejected"]),
   markets |-> ms]

\* the FillResult of a rejection: status 'rejected', the engine as it was
RejectedResult(order, bal, pos, hist, ms) ==
  [status |-> "rejected", averagePrice |-> Zero,
   currentBalance |-> bal, positions |-> pos,
   tradeHistory |-> hist, markets |-> ms]

\* executeTrade(order) on the engine state (bal, pos, hist) and the store ms:
\* the FillResult's status with the state the call leaves
executeTrade(order, bal, pos, hist, ms, t) ==
  LET limit == ~Falsy(order.price)
      noMarket == ~limit /\ ~HasMarket(ms, order.marketId)
      ms1 == IF limit THEN ms ELSE TouchMarket(ms, order.marketId, t)
      fillPrice == ResolveFillPrice(order, ms, t)
      rejected == RejectedResult(order, bal, pos, hist, ms1)
      tokens == RDiv(order.size, fillPrice)
      totalCost == order.size
      trade == [tradeId |-> LastTradeId(hist) + 1,
                marketId |-> order.marketId, side |-> order.side,
                action |-> order.action, size |-> order.size,
                price |-> fillPrice, status |-> "filled"]
  IN  IF noMarket THEN rejected
      ELSE IF fillPrice = Zero \/ fillPrice = Null
              \/ RLe(fillPrice, Zero) \/ RLt(One, fillPrice) THEN rejected
      ELSE IF order.action = "BUY" /\ RLt(bal, totalCost) THEN rejected
      ELSE [status |-> "filled", averagePrice |-> fillPrice,
            currentBalance |-> IF order.action = "BUY"
                               THEN RSub(bal, totalCost)
                               ELSE RAdd(bal, totalCost),
            positions |-> updatePosition(pos, order, fillPrice, tokens, ms1, t),
            tradeHistory |-> PushTrade(hist, trade),
            markets |-> TouchMarket(ms1, order.marketId, t)]

\* realized PnL of a redemption that forgets the losing side's cost
RedemptionPnLWinnerOnly(position, winningOutcome) ==
  IF winningOutcome = 0
  THEN RMul(position.yesTokens, RSub(One, position.yesEntryPrice))
  ELSE RMul(position.noTokens, RSub(One, position.noEntryPrice))

\* realized PnL of a redemption: the winner at $1, the loser at $0
RedemptionPnL(position, winningOutcome) ==
  IF winningOutcome = 0
  THEN RAdd(RMul(position.yesTokens, RSub(One, position.yesEntryPrice)),
            RMul(position.noTokens, RSub(Zero, position.noEntryPrice)))
  ELSE RAdd(RMul(position.noTokens, RSub(One, position.noEntryPrice)),
            RMul(position.yesTokens, RSub(Zero, position.yesEntryPrice)))

\* redeemPosition(marketId, winningOutcome) on a position that exists: the
\* engine state it leaves (winningOutcome 0 is YES, 1 is NO)
redeemPosition(marketId, winningOutcome, bal, pos, pnl, hist) ==
  LET position == pos[marketId]
      settlementProceeds == IF winningOutcome = 0
                            THEN RMul(position.yesTokens, One)
                            ELSE RMul(position.noTokens, One)
      redemptionRecord ==
        [tradeId |-> LastTradeId(hist) + 1,
         marketId |-> marketId,
         side |-> IF winningOutcome = 0 THEN "YES" ELSE "NO",
         action |-> "SELL", size |-> settlementProceeds,
         price |-> One, status |-> "filled"]
  IN  [currentBalance |-> RAdd(bal, settlementProceeds),
       realizedPnL |-> RAdd(pnl, RedemptionPnL(position, winningOutcome)),
       tradeHistory |-> PushTrade(hist, redemptionRecord),
       positions |-> [pos EXCEPT ![marketId] = NoPosition]]

\* a leg of closePosition up to its await: the best bid read from the store
\* (the leg's entry price when the market or the bid is missing), the market
\* SELL of tokens * fillPrice dollars, and what executeTrade makes of it
closeLeg(position, marketId, side, bal, pos, hist, ms, t) ==
  LET market == getMarket(ms, marketId, t)
      tokens == IF side = "YES" THEN position.yesTokens ELSE position.noTokens
      entryPrice == IF side = "YES" THEN position.yesEntryPrice
                    ELSE position.noEntryPrice
      bid == IF market = NoValue THEN Null
             ELSE IF side = "YES" THEN market.yesPrices.bid
             ELSE market.noPrices.bid
      fillPrice == OrElse(bid, entryPrice)
      order == [marketId |-> marketId, side |-> side, action |-> "SELL",
                size |-> RMul(tokens, fillPrice), price |-> Null]
      r == executeTrade(order, bal, pos, hist, TouchMarket(ms, marketId, t), t)
  IN  [fillPrice |-> fillPrice, result |-> r,
       leg |-> [side |-> side, tokens |-> tokens, entryPrice |-> entryPrice,
                bid |-> bid, fillPrice |-> fillPrice, status |-> r.status]]

\* realized PnL of a leg, computed after the await from the position object
\* as executeTrade left it
closeRealized(position, side, fillPrice) ==
  IF side = "YES"
  THEN RMul(position.yesTokens, RSub(fillPrice, position.yesEntryPrice))
  ELSE RMul(position.noTokens, RSub(fillPrice, position.noEntryPrice))

---------------------------------------------------------------------------
(* CopyTradingService: the object as constructed and its computations *)

\* the tracked users, two in place of the constructor's list
CopyUsers == {"u1", "u2"}
DefaultTrackedUsers == <<"u1", "u2">>

\* url.searchParams.set('limit', '10'): the most recent activities returned
FetchLimit == 10

\* MARKET_CACHE_TTL_MS = 60000, twice the store's stale threshold of 30000
MARKET_CACHE_TTL_MS == 2 * staleThresholdMs

NewCopyTradingService ==
  [isRunning |-> FALSE, pollInterval |-> FALSE, isInitialPoll |-> TRUE,
   seenTransactionHashes |-> {}, detectedTrades |-> <<>>,
   lastPollTime |-> 0,
   userTradeHistory |-> [u \in CopyUsers |-> <<>>],
   marketDataCache |-> [m \in MarketIds |-> NoValue],
   config |-> [enabled |-> FALSE, trackedUsers |-> DefaultTrackedUsers,
               minTradeSize |-> Usd(10), maxTradeSize |-> Usd(1000),
               recentTradesWindow |-> 15,
               minVolumeForScaling |-> Usd(1000)]]

\* tradeHistory.set(hash, size) on a Map kept in insertion order, then the
\* removal of the first key when the Map is larger than the window
SetTradeSize(window, hash, size, windowSize) ==
  LET known == \E i \in 1..Len(window) : window[i].hash = hash
      w == IF known
           THEN [i \in 1..Len(window) |->
                   IF window[i].hash = hash
                   THEN [hash |-> hash, size |-> size] ELSE window[i]]
           ELSE Append(window, [hash |-> hash, size |-> size])
  IN  IF Len(w) > windowSize THEN Tail(w) ELSE w

\* the user's trade window after the fetched activities are added to it:
\* only TRADE activities count
RECURSIVE UpdateTradeHistory(_, _, _)
UpdateTradeHistory(window, activities, windowSize) ==
  IF activities = <<>> THEN window
  ELSE LET a == Head(activities)
           w == IF a.type = "TRADE"
                THEN SetTradeSize(window, a.transactionHash, a.size,
                                  windowSize)
                ELSE window
       IN  UpdateTradeHistory(w, Tail(activities), windowSize)

\* the window's volume without the trade's own hash
RECURSIVE RecentVolume(_, _)
RecentVolume(window, tradeHash) ==
  IF window = <<>> THEN Zero
  ELSE RAdd(IF Head(window).hash # tradeHash THEN Head(window).size
            ELSE Zero,
            RecentVolume(Tail(window), tradeHash))

calculateProportionalSize(tradeSize, tradeHash, window, cfg) ==
  LET minVolumeForScaling == OrElse(cfg.minVolumeForScaling, Usd(1000))
      maxTradeSize == OrElse(cfg.maxTradeSize, Usd(1000))
      minTradeSize == OrElse(cfg.minTradeSize, Usd(10))
      recentVolume == RecentVolume(window, tradeHash)
      proportionalSize ==
        RDiv(RMul(maxTradeSize,
                  RMul(RDiv(tradeSize, recentVolume), Usd(100))),
             Usd(100))
  IN  IF Len(window) < 2
      THEN RMax(minTradeSize, RMul(maxTradeSize, P(100)))
      ELSE IF RLt(recentVolume, minVolumeForScaling)
      THEN RMax(minTradeSize, RMul(maxTradeSize, P(50)))
      ELSE RMin(RMax(minTradeSize, proportionalSize), maxTradeSize)

\* determineWinningOutcome's null
Indeterminate == 2

\* 0 when YES won, 1 when NO won, Indeterminate otherwise; outcomePrices
\* is the parsed array, empty when the field is missing
determineWinningOutcome(marketData) ==
  LET prices == marketData.outcomePrices
  IN  IF Len(prices) # 2 THEN Indeterminate
      ELSE IF RLt(P(900), prices[1]) /\ RLt(prices[2], P(100)) THEN 0
      ELSE IF RLt(P(900), prices[2]) /\ RLt(prices[1], P(100)) THEN 1
      ELSE Indeterminate

\* the rest of handleRedemption, were the settlement taken from the
\* position object handleRedemption holds (the one the copy service's
\* redeemPosition logs its totals from) and not from the engine's map
finishRedemptionHeldPosition(st, activity, marketData) ==
  LET conditionId == activity.conditionId
      winningOutcome == determineWinningOutcome(marketData)
      held == IF st.pos[conditionId] = NoPosition THEN st.existingPosition
              ELSE st.pos[conditionId]
      r == redeemPosition(conditionId, winningOutcome, st.bal,
                          [st.pos EXCEPT ![conditionId] = held],
                          st.pnl, st.hist)
      called == [st EXCEPT !.redeemed = Append(@, activity.transactionHash),
                           !.winners = Append(@, winningOutcome)]
  IN  IF marketData = NoValue THEN st
      ELSE IF ~marketData.closed THEN st
      ELSE IF winningOutcome = Indeterminate THEN st
      ELSE IF held = NoValue THEN called
      ELSE [called EXCEPT !.bal = r.currentBalance, !.pnl = r.realizedPnL,
                          !.hist = r.tradeHistory, !.pos = r.positions]

\* the rest of handleRedemption once the market data is there (null when
\* the fetch failed): the engine's redeemPosition is called for a closed
\* market with a clear winner
finishRedemption(st, activity, marketData) ==
  LET conditionId == activity.conditionId
      winningOutcome == determineWinningOutcome(marketData)
      r == redeemPosition(conditionId, winningOutcome, st.bal, st.pos,
                          st.pnl, st.hist)
      called == [st EXCEPT !.redeemed = Append(@, activity.transactionHash),
                           !.winners = Append(@, winningOutcome)]
  IN  IF marketData = NoValue THEN st
      ELSE IF ~marketData.closed THEN st
      ELSE IF winningOutcome = Indeterminate THEN st
      ELSE IF st.pos[conditionId] = NoPosition THEN called
      ELSE [called EXCEPT !.bal = r.currentBalance, !.pnl = r.realizedPnL,
                          !.hist = r.tradeHistory, !.pos = r.positions,
                          !.closing = [i \in 1..Len(st.closing) |->
                             IF st.closing[i].marketId = conditionId
                                /\ st.closing[i].detached = NoValue
                             THEN [st.closing[i] EXCEPT
                                     !.detached = st.pos[conditionId]]
                             ELSE st.closing[i]]]

\* handleRedemption without its check of the position
handleRedemptionUnchecked(st, activity, t) ==
  LET conditionId == activity.conditionId
      ms1 == IF st.pos[conditionId] = NoPosition THEN st.ms
             ELSE TouchMarket(st.ms, conditionId, t)
      cached == st.copy.marketDataCache[conditionId]
      read == [st EXCEPT !.ms = ms1,
                         !.pos = getPosition(st.pos, ms1, conditionId, t)]
  IN  IF cached # NoValue /\ t - cached.timestamp < MARKET_CACHE_TTL_MS
      THEN finishRedemption(read, activity, cached.data)
      ELSE [read EXCEPT !.awaiting = activity,
                        !.existingPosition = read.pos[conditionId]]

\* handleRedemption up to its network fetch: nothing without a position;
\* market data cached for less than the TTL is used at once, else the call
\* waits for the markets API (st.awaiting) and keeps the position it read
\* (st.existingPosition)
handleRedemption(st, activity, t) ==
  LET conditionId == activity.conditionId
      ms1 == TouchMarket(st.ms, conditionId, t)
      cached == st.copy.marketDataCache[conditionId]
      read == [st EXCEPT !.ms = ms1,
                         !.pos = getPosition(st.pos, ms1, conditionId, t)]
  IN  IF st.pos[conditionId] = NoPosition THEN st
      ELSE IF cached # NoValue /\ t - cached.timestamp < MARKET_CACHE_TTL_MS
      THEN finishRedemption(read, activity, cached.data)
      ELSE [read EXCEPT !.awaiting = activity,
                        !.existingPosition = read.pos[conditionId]]

\* executeCopyTrade's checks before a SELL, with the position check only
SellRefusalPositionOnly(existingPosition, side, tokensToSell) ==
  IF existingPosition = NoPosition THEN "No position exists to sell"
  ELSE "none"

\* executeCopyTrade's checks before a SELL: the executionError it sets, or
\* "none" when the SELL goes to the engine
SellRefusal(existingPosition, side, tokensToSell) ==
  IF existingPosition = NoPosition THEN "No position exists to sell"
  ELSE IF RLt(IF side = "YES" THEN existingPosition.yesTokens
              ELSE existingPosition.noTokens, tokensToSell)
  THEN "Insufficient tokens to sell"
  ELSE "none"

\* a write of the outcome that lands on the newest record already there
RecordDetectedOverwrite(detectedTrades, detectedTrade) ==
  IF detectedTrades = <<>> THEN <<detectedTrade>>
  ELSE [detectedTrades EXCEPT ![Len(detectedTrades)] = detectedTrade]

\* this.detectedTrades.push(detectedTrade), the record as executeCopyTrade
\* leaves it
RecordDetected(detectedTrades, detectedTrade) ==
  Append(detectedTrades, detectedTrade)

\* handleNewTrade with executeCopyTrade: a trade under half the minimum
\* size is skipped; else a DetectedTrade is recorded and the copy order is
\* handed to the engine, a SELL only when the position covers it
handleNewTrade(st, trade, user, t) ==
  LET cfg == st.copy.config
      conditionId == trade.conditionId
      copySize == calculateProportionalSize(
                    trade.size, trade.transactionHash,
                    st.copy.userTradeHistory[user], cfg)
      side == IF trade.outcome \in {"Yes", "YES"} THEN "YES" ELSE "NO"
      action == trade.side
      sell == action = "SELL"
      ms1 == IF sell /\ st.pos[conditionId] # NoPosition
             THEN TouchMarket(st.ms, conditionId, t) ELSE st.ms
      pos1 == IF sell THEN getPosition(st.pos, ms1, conditionId, t)
              ELSE st.pos
      existingPosition == pos1[conditionId]
      refusal == IF sell
                 THEN SellRefusal(existingPosition, side,
                                  RDiv(copySize, trade.price))
                 ELSE "none"
      order == [marketId |-> conditionId, side |-> side, action |-> action,
                size |-> copySize, price |-> trade.price]
      r == CHOOSE result \in
             { executeTrade(o, st.bal, p, st.hist, m, t) :
                 o \in {order}, p \in {pos1}, m \in {ms1} } : TRUE
      detected(executed, executionError) ==
        [st EXCEPT !.ms = ms1, !.pos = pos1,
                   !.copy.detectedTrades =
                      RecordDetected(@,
                         [transactionHash |-> trade.transactionHash,
                          trackedUser |-> user,
                          executed |-> executed,
                          executionError |-> executionError])]
  IN  IF ~Falsy(cfg.minTradeSize)
         /\ RLt(trade.size, RMul(cfg.minTradeSize, P(500)))
      THEN st
      ELSE IF refusal # "none" THEN detected(FALSE, refusal)
      ELSE LET d == detected(r.status = "filled",
                             IF r.status = "filled" THEN "undefined"
                             ELSE "Trade status: rejected")
           IN  [d EXCEPT !.bal = r.currentBalance, !.pos = r.positions,
                         !.hist = r.tradeHistory, !.ms = r.markets,
                         !.executed = Append(@, trade.transactionHash)]

\* the loop of fetchUserTrades over the activities after the initial poll:
\* an activity whose hash is new is marked seen and handled by its type; the
\* loop is suspended (st.awaiting, st.rest) when a redemption has to fetch
\* the market's data
\* the handling of an activity that is not marked seen
processActivityUnmarked(st, activity, user, t) ==
  LET hash == activity.transactionHash
      st1 == [st EXCEPT !.handled = Append(@, hash)]
  IN  IF hash \in st.copy.seenTransactionHashes THEN st
      ELSE IF activity.type = "REDEEM"
      THEN CHOOSE r \in {handleRedemption(s, activity, t) : s \in {st1}} : TRUE
      ELSE IF activity.type = "TRADE"
      THEN CHOOSE r \in {handleNewTrade(s, activity, user, t) : s \in {st1}} :
             TRUE
      ELSE [st1 EXCEPT !.handled = st.handled]

\* the handling of an activity without the look at the seen set
processActivityUnchecked(st, activity, user, t) ==
  LET hash == activity.transactionHash
      st1 == [st EXCEPT !.copy.seenTransactionHashes = @ \cup {hash},
                        !.handled = Append(@, hash)]
  IN  IF activity.type = "REDEEM"
      THEN CHOOSE r \in {handleRedemption(s, activity, t) : s \in {st1}} : TRUE
      ELSE IF activity.type = "TRADE"
      THEN CHOOSE r \in {handleNewTrade(s, activity, user, t) : s \in {st1}} :
             TRUE
      ELSE [st1 EXCEPT !.handled = st.handled]

processActivity(st, activity, user, t) ==
  LET hash == activity.transactionHash
      st1 == [st EXCEPT !.copy.seenTransactionHashes = @ \cup {hash},
                        !.handled = Append(@, hash)]
  IN  IF hash \in st.copy.seenTransactionHashes THEN st
      ELSE IF activity.type = "REDEEM"
      THEN CHOOSE r \in {handleRedemption(s, activity, t) : s \in {st1}} : TRUE
      ELSE IF activity.type = "TRADE"
      THEN CHOOSE r \in {handleNewTrade(s, activity, user, t) : s \in {st1}} :
             TRUE
      ELSE [st1 EXCEPT !.handled = st.handled]

RECURSIVE processActivities(_, _, _, _)
processActivities(st, activities, user, t) ==
  IF activities = <<>> THEN st
  ELSE CHOOSE r \in
         { IF next.awaiting # NoValue
           THEN [next EXCEPT !.rest = Tail(activities)]
           ELSE processActivities(next, Tail(activities), user, t) :
             next \in {processActivity(st, Head(activities), user, t)} } :
         TRUE

\* the hashes of activities
Hashes(activities) ==
  {activities[i].transactionHash : i \in 1..Len(activities)}

---------------------------------------------------------------------------
(* Initial state: the objects as constructed, nothing started *)

\* scanDebounceTimer = null
NoTimer == 0

Init ==
  /\ now = 0
  /\ markets = <<>>
  /\ onUpdateCallbacks = <<"debouncedScan">>
  /\ config = DefaultConfig
  /\ trackedMarkets = {}
  /\ isRunning = FALSE
  /\ scanInterval = FALSE
  /\ scanDebounceTimer = NoTimer
  /\ timeouts = {}
  /\ inflight = <<>>
  /\ closing = <<>>
  /\ copyTrading = NewCopyTradingService
  /\ cycles = <<>>
  /\ activityFeed = [u \in CopyUsers |-> <<>>]
  /\ rateLimitRequests = <<>>
  /\ limiterCalls = <<>>
  /\ requests = <<>>
  /\ currentBalance = Usd(CAPITAL)
  /\ positions = [m \in MarketIds |-> NoPosition]
  /\ realizedPnL = Zero
  /\ tradeHistory = <<>>
  /\ snapshot = <<>>
  /\ last = [op |-> "init"]

---------------------------------------------------------------------------
(* Clock *)

Tick ==
  /\ now < MaxTime
  /\ now' = now + 1
  /\ last' = [op |-> "tick"]
  /\ UNCHANGED <<markets, onUpdateCallbacks, config, trackedMarkets,
                 isRunning, scanInterval, scanDebounceTimer, timeouts, inflight, closing,
                 currentBalance, positions, realizedPnL, tradeHistory, snapshot, copyVars>>

---------------------------------------------------------------------------
(* MarketStore operations *)

InSeq(x, s) == \E i \in 1..Len(s) : s[i] = x

\* triggerUpdateCallbacks without the try/catch: the first throw ends the loop
RECURSIVE triggerUpdateCallbacksNoCatch(_, _)
triggerUpdateCallbacksNoCatch(cbs, throwing) ==
  IF cbs = <<>> THEN <<>>
  ELSE IF Head(cbs) \in throwing THEN <<Head(cbs)>>
  ELSE <<Head(cbs)>> \o triggerUpdateCallbacksNoCatch(Tail(cbs), throwing)

\* triggerUpdateCallbacks: the callbacks invoked, in order, when the
\* callbacks in throwing throw (each call is wrapped in try/catch)
triggerUpdateCallbacks(cbs, throwing) == cbs

\* the callbacks updateOrderBook invokes, marketData being the merged market
CallbacksOfUpdate(marketData, cbs, throwing) ==
  IF BothAsksPresent(marketData)
  THEN triggerUpdateCallbacks(cbs, throwing)
  ELSE <<>>

\* a handle no pending timeout has
FreshTimer(pending) ==
  CHOOSE id \in 1..(Cardinality(pending) + 1) :
     \A x \in pending : x.id # id

\* clearTimeout(handle)
clearTimeout(pending, handle) == {x \in pending : x.id # handle}

\* setTimeout(callback, scanDebounceMs): the handle and the pending set; the
\* timeout is not due until scanDebounceMs have elapsed
setTimeout(pending) ==
  LET id == FreshTimer(pending)
  IN  [timer |-> id, timeouts |-> pending \cup {[id |-> id, due |-> FALSE]}]

\* debouncedScan() that schedules without clearing the pending timer
debouncedScanNoClear(timer, pending) ==
  IF ~isRunning \/ ~config.enabled
  THEN [timer |-> timer, timeouts |-> pending]
  ELSE setTimeout(pending)

\* debouncedScan(): nothing when stopped or disabled; else the pending
\* timer is cleared and a new one scheduled
debouncedScan(timer, pending) ==
  IF ~isRunning \/ ~config.enabled
  THEN [timer |-> timer, timeouts |-> pending]
  ELSE setTimeout(IF timer # NoTimer THEN clearTimeout(pending, timer)
                  ELSE pending)

UpdateOrderBook(u, throwing) ==
  LET ms1 == MergeUpdate(markets, u, now)
      marketData == ms1[KeyIndex(ms1, u.marketId)]
      ran == CallbacksOfUpdate(marketData, onUpdateCallbacks, throwing)
  IN  /\ markets' = ms1
      /\ LET armed == IF InSeq("debouncedScan", ran)
                      THEN debouncedScan(scanDebounceTimer, timeouts)
                      ELSE [timer |-> scanDebounceTimer, timeouts |-> timeouts]
         IN  /\ scanDebounceTimer' = armed.timer
             /\ timeouts' = armed.timeouts
      /\ last' = [op |-> "updateOrderBook", marketId |-> u.marketId,
                  ran |-> ran, throwing |-> throwing,
                  pendingBefore |-> Cardinality(timeouts)]
      /\ UNCHANGED <<now, onUpdateCallbacks, config, trackedMarkets, isRunning,
                     scanInterval, inflight, closing, currentBalance, positions,
                     realizedPnL, tradeHistory, snapshot, copyVars>>

OnUpdate(cb) ==
  /\ ~InSeq(cb, onUpdateCallbacks)
  /\ onUpdateCallbacks' = Append(onUpdateCallbacks, cb)
  /\ last' = [op |-> "onUpdate"]
  /\ UNCHANGED <<now, markets, config, trackedMarkets, isRunning,
                 scanInterval, scanDebounceTimer, timeouts, inflight, closing, currentBalance,
                 positions, realizedPnL, tradeHistory, snapshot, copyVars>>

OffUpdate(cb) ==
  /\ InSeq(cb, onUpdateCallbacks)
  /\ onUpdateCallbacks' = SelectSeq(onUpdateCallbacks, LAMBDA c : c # cb)
  /\ last' = [op |-> "offUpdate"]
  /\ UNCHANGED <<now, markets, config, trackedMarkets, isRunning,
                 scanInterval, scanDebounceTimer, timeouts, inflight, closing, currentBalance,
                 positions, realizedPnL, tradeHistory, snapshot, copyVars>>

RemoveMarket(id) ==
  /\ HasMarket(markets, id)
  /\ markets' = SelectSeq(markets, LAMBDA m : m.marketId # id)
  /\ last' = [op |-> "removeMarket"]
  /\ UNCHANGED <<now, onUpdateCallbacks, config, trackedMarkets, isRunning,
                 scanInterval, scanDebounceTimer, timeouts, inflight, closing, currentBalance,
                 positions, realizedPnL, tradeHistory, snapshot, copyVars>>

\* a caller reads getArbitrageOpportunities(feeBuffer)
GetArbitrageOpportunities(feeBuffer) ==
  /\ markets' = getAllMarkets(markets, now)
  /\ last' = [op |-> "getArbitrageOpportunities", feeBuffer |-> feeBuffer,
              result |-> getArbitrageOpportunities(markets, feeBuffer, now)]
  /\ UNCHANGED <<now, onUpdateCallbacks, config, trackedMarkets, isRunning,
                 scanInterval, scanDebounceTimer, timeouts, inflight, closing, currentBalance,
                 positions, realizedPnL, tradeHistory, snapshot, copyVars>>

---------------------------------------------------------------------------
(* ArbitrageDetector operations called from outside the service *)

\* a caller takes scanOpportunities() and keeps the result
TakeSnapshot ==
  /\ snapshot' = scanOpportunities(markets, trackedMarkets, config, now)
  /\ markets' = getAllMarkets(markets, now)
  /\ last' = [op |-> "scanOpportunities"]
  /\ UNCHANGED <<now, onUpdateCallbacks, config, trackedMarkets, isRunning,
                 scanInterval, scanDebounceTimer, timeouts, inflight, closing, currentBalance,
                 positions, realizedPnL, tradeHistory, copyVars>>

\* createExecutionPlan(opportunity) on an opportunity taken earlier
PlanCall(i) ==
  /\ i \in 1..Len(snapshot)
  /\ markets' = TouchMarket(markets, snapshot[i].marketId, now)
  /\ last' = [op |-> "createExecutionPlan",
              opportunity |-> snapshot[i],
              plan |-> createExecutionPlan(snapshot[i], markets, config, now)]
  /\ UNCHANGED <<now, onUpdateCallbacks, config, trackedMarkets, isRunning,
                 scanInterval, scanDebounceTimer, timeouts, inflight, closing, currentBalance,
                 positions, realizedPnL, tradeHistory, snapshot, copyVars>>

\* detectArbitrage(market) on a market of the store, as the scan calls it
DetectCall(i) ==
  /\ i \in 1..Len(markets)
  /\ last' = [op |-> "detectArbitrage", marketId |-> markets[i].marketId,
              result |-> detectArbitrage(markets[i], config)]
  /\ UNCHANGED <<now, markets, onUpdateCallbacks, config, trackedMarkets,
                 isRunning, scanInterval, scanDebounceTimer, timeouts, inflight, closing,
                 currentBalance, positions, realizedPnL, tradeHistory, snapshot, copyVars>>

markMarketTracked(tracked, marketId) == tracked \cup {marketId}

MarkMarketTracked(marketId) ==
  /\ marketId \notin trackedMarkets
  /\ trackedMarkets' = markMarketTracked(trackedMarkets, marketId)
  /\ last' = [op |-> "markMarketTracked", marketId |-> marketId]
  /\ UNCHANGED <<now, markets, onUpdateCallbacks, config, isRunning,
                 scanInterval, scanDebounceTimer, timeouts, inflight, closing, currentBalance,
                 positions, realizedPnL, tradeHistory, snapshot, copyVars>>

UnmarkMarket(marketId) ==
  /\ marketId \in trackedMarkets
  /\ trackedMarkets' = trackedMarkets \ {marketId}
  /\ last' = [op |-> "unmarkMarket", marketId |-> marketId]
  /\ UNCHANGED <<now, markets, onUpdateCallbacks, config, isRunning,
                 scanInterval, scanDebounceTimer, timeouts, inflight, closing, currentBalance,
                 positions, realizedPnL, tradeHistory, snapshot, copyVars>>

\* updateConfig(updates): the thresholds are replaced, enabled is kept
UpdateConfig(cfg) ==
  /\ cfg # [config EXCEPT !.enabled = FALSE]
  /\ config' = [cfg EXCEPT !.enabled = config.enabled]
  /\ last' = [op |-> "updateConfig"]
  /\ UNCHANGED <<now, markets, onUpdateCallbacks, trackedMarkets, isRunning,
                 scanInterval, scanDebounceTimer, timeouts, inflight, closing, currentBalance,
                 positions, realizedPnL, tradeHistory, snapshot, copyVars>>

---------------------------------------------------------------------------
(* PaperExecutionEngine operations *)

\* legs of suspended executeArbitrage calls that are still to be submitted
PendingLegs ==
  Cardinality({i \in 1..Len(inflight) : inflight[i].pc = "noLeg"})

\* fills the engine still takes within the bound; the legs of a close are
\* bounded by the position they sell and are not held back
Room == MaxFills - LastTradeId(tradeHistory) - PendingLegs

\* executeTrade(order) called by the trade API or a copy trade
ExecuteTrade(order) ==
  LET r == executeTrade(order, currentBalance, positions, tradeHistory,
                        markets, now)
  IN  /\ Room >= 1
      /\ currentBalance' = r.currentBalance
      /\ positions' = r.positions
      /\ tradeHistory' = r.tradeHistory
      /\ markets' = r.markets
      /\ last' = [op |-> "executeTrade", order |-> order, status |-> r.status]
      /\ UNCHANGED <<now, onUpdateCallbacks, config, trackedMarkets, isRunning,
                     scanInterval, scanDebounceTimer, timeouts, inflight, closing, realizedPnL,
                     snapshot, copyVars>>

RemoveAt(s, i) == SubSeq(s, 1, i - 1) \o SubSeq(s, i + 1, Len(s))

\* a suspended closePosition holds a reference to its position object; when
\* the object leaves the positions map the call keeps it as it then was
Detach(calls, marketId, position) ==
  [i \in 1..Len(calls) |->
     IF calls[i].marketId = marketId /\ calls[i].detached = NoValue
     THEN [calls[i] EXCEPT !.detached = position]
     ELSE calls[i]]

\* the position object a suspended closePosition refers to
CallPosition(call) ==
  IF call.detached # NoValue THEN call.detached
  ELSE positions[call.marketId]

\* redeemPosition(marketId, winningOutcome): nothing without a position
RedeemPosition(marketId, winningOutcome) ==
  LET r == redeemPosition(marketId, winningOutcome, currentBalance, positions,
                          realizedPnL, tradeHistory)
      found == positions[marketId] # NoPosition
  IN  /\ Room >= 1
      /\ currentBalance' = IF found THEN r.currentBalance ELSE currentBalance
      /\ realizedPnL' = IF found THEN r.realizedPnL ELSE realizedPnL
      /\ tradeHistory' = IF found THEN r.tradeHistory ELSE tradeHistory
      /\ positions' = IF found THEN r.positions ELSE positions
      /\ closing' = IF found
                    THEN Detach(closing, marketId, positions[marketId])
                    ELSE closing
      /\ last' = [op |-> "redeemPosition", marketId |-> marketId,
                  winningOutcome |-> winningOutcome, found |-> found,
                  position |-> positions[marketId]]
      /\ UNCHANGED <<now, markets, onUpdateCallbacks, config, trackedMarkets,
                     isRunning, scanInterval, scanDebounceTimer, timeouts,
                     inflight, snapshot, copyVars>>

\* the call record of a closePosition suspended at an await
CloseCall(marketId, pc, fillPrice, legs, added) ==
  [marketId |-> marketId, pc |-> pc, fillPrice |-> fillPrice,
   detached |-> NoValue, legs |-> legs, added |-> added]

\* closePosition(marketId) up to its first await: no position returns [];
\* a position without tokens is deleted at once
ClosePosition(marketId) ==
  LET position == positions[marketId]
      side == IF RLt(Zero, position.yesTokens) THEN "YES" ELSE "NO"
      l == closeLeg(position, marketId, side, currentBalance, positions,
                    tradeHistory, markets, now)
  IN  /\ Len(closing) < MaxInFlight
      /\ IF position = NoPosition
         THEN /\ last' = [op |-> "closePosition", marketId |-> marketId,
                          found |-> FALSE, leg |-> NoValue, done |-> TRUE,
                          legs |-> <<>>, added |-> Zero]
              /\ UNCHANGED <<markets, closing, currentBalance, positions,
                             tradeHistory>>
         ELSE IF ~RLt(Zero, position.yesTokens) /\ ~RLt(Zero, position.noTokens)
         THEN /\ positions' = [positions EXCEPT ![marketId] = NoPosition]
              /\ closing' = Detach(closing, marketId, position)
              /\ last' = [op |-> "closePosition", marketId |-> marketId,
                          found |-> TRUE, leg |-> NoValue, done |-> TRUE,
                          legs |-> <<>>, added |-> Zero]
              /\ UNCHANGED <<markets, currentBalance, tradeHistory>>
         ELSE /\ currentBalance' = l.result.currentBalance
              /\ positions' = l.result.positions
              /\ tradeHistory' = l.result.tradeHistory
              /\ markets' = l.result.markets
              /\ closing' = Append(closing,
                                   CloseCall(marketId,
                                             IF side = "YES" THEN "afterYes"
                                             ELSE "afterNo",
                                             l.fillPrice, <<l.leg>>, Zero))
              /\ last' = [op |-> "closePosition", marketId |-> marketId,
                          found |-> TRUE, leg |-> l.leg, done |-> FALSE,
                          legs |-> <<l.leg>>, added |-> Zero]
      /\ UNCHANGED <<now, onUpdateCallbacks, config, trackedMarkets,
                     isRunning, scanInterval, scanDebounceTimer, timeouts,
                     inflight, realizedPnL, snapshot, copyVars>>

\* closePosition after an await: the leg's realized PnL, then the NO leg or
\* the deletion of the position
CloseResume(i) ==
  LET call == closing[i]
      marketId == call.marketId
      position == CallPosition(call)
      side == IF call.pc = "afterYes" THEN "YES" ELSE "NO"
      realized == closeRealized(position, side, call.fillPrice)
      added == RAdd(call.added, realized)
      noLeg == call.pc = "afterYes" /\ RLt(Zero, position.noTokens)
      l == closeLeg(position, marketId, "NO", currentBalance, positions,
                    tradeHistory, markets, now)
      rest == RemoveAt(closing, i)
  IN  /\ realizedPnL' = RAdd(realizedPnL, realized)
      /\ IF noLeg
         THEN /\ currentBalance' = l.result.currentBalance
              /\ positions' = l.result.positions
              /\ tradeHistory' = l.result.tradeHistory
              /\ markets' = l.result.markets
              /\ closing' = [closing EXCEPT
                               ![i] = [call EXCEPT
                                         !.pc = "afterNo",
                                         !.fillPrice = l.fillPrice,
                                         !.legs = Append(call.legs, l.leg),
                                         !.added = added]]
              /\ last' = [op |-> "closePosition", marketId |-> marketId,
                          found |-> TRUE, leg |-> l.leg, done |-> FALSE,
                          legs |-> Append(call.legs, l.leg), added |-> added]
         ELSE /\ positions' = [positions EXCEPT ![marketId] = NoPosition]
              /\ closing' = IF positions[marketId] = NoPosition THEN rest
                            ELSE Detach(rest, marketId, positions[marketId])
              /\ last' = [op |-> "closePosition", marketId |-> marketId,
                          found |-> TRUE, leg |-> NoValue, done |-> TRUE,
                          legs |-> call.legs, added |-> added]
              /\ UNCHANGED <<markets, currentBalance, tradeHistory>>
      /\ UNCHANGED <<now, onUpdateCallbacks, config, trackedMarkets,
                     isRunning, scanInterval, scanDebounceTimer, timeouts,
                     inflight, snapshot, copyVars>>

---------------------------------------------------------------------------
(* CopyTradingService *)

\* how many of the activities a poll has not seen yet: each of them is
\* handled and may add a record to the engine's trade history
Unseen(activities) ==
  Cardinality({i \in 1..Len(activities) :
                 activities[i].transactionHash \notin
                    copyTrading.seenTransactionHashes})

\* the state a handler of the copy service works on
HandlerState ==
  [copy |-> copyTrading, bal |-> currentBalance, pos |-> positions,
   pnl |-> realizedPnL, hist |-> tradeHistory, ms |-> markets,
   closing |-> closing, handled |-> <<>>, executed |-> <<>>,
   redeemed |-> <<>>, winners |-> <<>>, awaiting |-> NoValue,
   existingPosition |-> NoValue, rest |-> <<>>]

\* the state a handler leaves
Commit(st) ==
  /\ copyTrading' = st.copy
  /\ currentBalance' = st.bal
  /\ positions' = st.pos
  /\ realizedPnL' = st.pnl
  /\ tradeHistory' = st.hist
  /\ markets' = st.ms
  /\ closing' = st.closing

\* pollForTrades() up to the request for its first user: no cycle when the
\* service is disabled or tracks nobody; first marks the poll start() makes
PollCycle(copy, first) ==
  IF ~copy.config.enabled \/ copy.config.trackedUsers = <<>> THEN <<>>
  ELSE << [first |-> first, index |-> 1,
           user |-> copy.config.trackedUsers[1], pc |-> "fetch",
           awaiting |-> NoValue, existingPosition |-> NoValue,
           rest |-> <<>>] >>

\* start(): nothing when running or when no user is tracked
CopyStart ==
  LET started == ~copyTrading.isRunning
                 /\ copyTrading.config.trackedUsers # <<>>
      copy == [copyTrading EXCEPT !.isRunning = TRUE,
                                  !.config.enabled = TRUE,
                                  !.isInitialPoll = TRUE,
                                  !.pollInterval = TRUE]
  IN  /\ Len(cycles) < MaxCycles
      /\ copyTrading' = IF started THEN copy ELSE copyTrading
      /\ cycles' = IF started THEN cycles \o PollCycle(copy, TRUE) ELSE cycles
      /\ last' = [op |-> "copyStart", started |-> started]
      /\ UNCHANGED <<now, markets, onUpdateCallbacks, config, trackedMarkets,
                     isRunning, scanInterval, scanDebounceTimer, timeouts,
                     inflight, closing, currentBalance, positions,
                     realizedPnL, tradeHistory, snapshot, activityFeed,
                 limiterVars>>

\* stop(): the interval is cleared; polls in flight go on
CopyStop ==
  /\ copyTrading' = IF ~copyTrading.isRunning THEN copyTrading
                    ELSE [copyTrading EXCEPT !.isRunning = FALSE,
                                             !.config.enabled = FALSE,
                                             !.isInitialPoll = TRUE,
                                             !.pollInterval = FALSE]
  /\ last' = [op |-> "copyStop", stopped |-> copyTrading.isRunning]
  /\ UNCHANGED <<now, markets, onUpdateCallbacks, config, trackedMarkets,
                 isRunning, scanInterval, scanDebounceTimer, timeouts,
                 inflight, closing, currentBalance, positions, realizedPnL,
                 tradeHistory, snapshot, cycles, activityFeed,
                 limiterVars>>

\* the poll interval fires
PollTick ==
  /\ copyTrading.pollInterval
  /\ Len(cycles) < MaxCycles
  /\ cycles' = IF copyTrading.config.enabled
               THEN cycles \o PollCycle(copyTrading, FALSE) ELSE cycles
  /\ last' = [op |-> "pollTick", polled |-> copyTrading.config.enabled]
  /\ UNCHANGED <<now, markets, onUpdateCallbacks, config, trackedMarkets,
                 isRunning, scanInterval, scanDebounceTimer, timeouts,
                 inflight, closing, currentBalance, positions, realizedPnL,
                 tradeHistory, snapshot, copyTrading, activityFeed,
                 limiterVars>>

\* what a step of a poll cycle shows
CycleSeen(op, cycle, fetched, st) ==
  [op |-> op, first |-> cycle.first, user |-> cycle.user,
   fetched |-> fetched, handled |-> st.handled, executed |-> st.executed,
   redeemed |-> st.redeemed, winners |-> st.winners,
   existingPosition |-> cycle.existingPosition]

\* the cycle after a handler step: waiting for market data, or asleep
\* before the next user
CycleAfter(cycle, st) ==
  IF st.awaiting # NoValue
  THEN [cycle EXCEPT !.pc = "marketData", !.awaiting = st.awaiting,
                     !.existingPosition = st.existingPosition,
                     !.rest = st.rest]
  ELSE [cycle EXCEPT !.pc = "sleep", !.awaiting = NoValue,
                     !.existingPosition = NoValue, !.rest = <<>>]

\* the cycles after fetchUserTrades when the request's error is not caught
\* there: it reaches the catch of pollForTrades, which ends the cycle
CyclesAfterFetchRethrown(cs, i, st, ok) ==
  IF ok THEN [cs EXCEPT ![i] = CycleAfter(cs[i], st)]
  ELSE [j \in 1..(Len(cs) - 1) |-> IF j < i THEN cs[j] ELSE cs[j + 1]]

\* the cycles after fetchUserTrades returns: a failed request is logged
\* inside fetchUserTrades and the loop of pollForTrades goes on
CyclesAfterFetch(cs, i, st, ok) ==
  [cs EXCEPT ![i] = CycleAfter(cs[i], st)]

\* fetchUserTrades once the activity API answers: a failed request (non-OK
\* or thrown) ends the user's turn; else the window is updated and, on the
\* initial poll, every activity is marked seen, after it the new ones are
\* handled
FetchResponse(i, ok) ==
  LET cycle == cycles[i]
      user == cycle.user
      activities == SubSeq(activityFeed[user], 1,
                           IF Len(activityFeed[user]) < FetchLimit
                           THEN Len(activityFeed[user]) ELSE FetchLimit)
      windowSize == IF copyTrading.config.recentTradesWindow = 0 THEN 10
                    ELSE copyTrading.config.recentTradesWindow
      updated == [HandlerState EXCEPT
                    !.copy.userTradeHistory[user] =
                       UpdateTradeHistory(@, activities, windowSize)]
      handle(st0) == IF ~ok THEN HandlerState
                     ELSE IF copyTrading.isInitialPoll
                     THEN [st0 EXCEPT !.copy.seenTransactionHashes =
                                         @ \cup Hashes(activities)]
                     ELSE processActivities(st0, activities, user, now)
  IN  /\ cycle.pc = "fetch"
      /\ ok /\ ~copyTrading.isInitialPoll => Room >= Unseen(activities)
      /\ \E st \in {handle(st0) : st0 \in {updated}} :
           /\ Commit(st)
           /\ cycles' = CyclesAfterFetch(cycles, i, st, ok)
           /\ last' = CycleSeen("fetchUserTrades", cycle,
                                IF ok THEN Hashes(activities) ELSE {}, st)
                        @@ [ok |-> ok]
      /\ UNCHANGED <<now, onUpdateCallbacks, config, trackedMarkets,
                     isRunning, scanInterval, scanDebounceTimer, timeouts,
                     inflight, snapshot, activityFeed,
                 limiterVars>>

\* handleRedemption once the markets API answers (marketData null for a
\* failed request): an answer is cached, the redemption is finished and the
\* loop over the user's activities goes on
MarketDataResponse(i, marketData) ==
  LET cycle == cycles[i]
      activity == cycle.awaiting
      held == [HandlerState EXCEPT
                 !.existingPosition = cycle.existingPosition]
      cached == IF marketData = NoValue THEN held
                ELSE [held EXCEPT
                        !.copy.marketDataCache[activity.conditionId] =
                           [data |-> marketData, timestamp |-> now]]
      handle(st0) ==
        CHOOSE r \in
          { processActivities(redeemed, cycle.rest, cycle.user, now) :
              redeemed \in {finishRedemption(st0, activity, marketData)} } :
          TRUE
  IN  /\ cycle.pc = "marketData"
      /\ Room >= Unseen(cycle.rest) + 1
      /\ \E st \in {handle(st0) : st0 \in {cached}} :
           /\ Commit(st)
           /\ cycles' = [cycles EXCEPT ![i] = CycleAfter(cycle, st)]
           /\ last' = CycleSeen("fetchMarketData", cycle, {}, st)
      /\ UNCHANGED <<now, onUpdateCallbacks, config, trackedMarkets,
                     isRunning, scanInterval, scanDebounceTimer, timeouts,
                     inflight, snapshot, activityFeed,
                 limiterVars>>

\* pollForTrades after the sleep that follows a user: the request for the
\* next user, or the end of the cycle, which closes the initial-poll phase
SleepDone(i) ==
  LET cycle == cycles[i]
      users == copyTrading.config.trackedUsers
      index == cycle.index + 1
  IN  /\ cycle.pc = "sleep"
      /\ IF index <= Len(users)
         THEN /\ cycles' = [cycles EXCEPT
                              ![i] = [cycle EXCEPT !.index = index,
                                                   !.user = users[index],
                                                   !.pc = "fetch"]]
              /\ UNCHANGED copyTrading
         ELSE /\ cycles' = RemoveAt(cycles, i)
              /\ copyTrading' = [copyTrading EXCEPT !.isInitialPoll = FALSE,
                                                    !.lastPollTime = now]
      /\ last' = [op |-> "sleepDone", first |-> cycle.first,
                  finished |-> index > Len(users)]
      /\ UNCHANGED <<now, markets, onUpdateCallbacks, config, trackedMarkets,
                     isRunning, scanInterval, scanDebounceTimer, timeouts,
                     inflight, closing, currentBalance, positions,
                     realizedPnL, tradeHistory, snapshot, activityFeed,
                 limiterVars>>

\* a tracked user acts on Polymarket: the activity API returns the new
\* activity first
NewActivity(user, activity) ==
  /\ \A u \in CopyUsers :
        activity.transactionHash \notin Hashes(activityFeed[u])
  /\ activityFeed' = [activityFeed EXCEPT ![user] = <<activity>> \o @]
  /\ last' = [op |-> "newActivity", user |-> user,
              transactionHash |-> activity.transactionHash]
  /\ UNCHANGED <<now, markets, onUpdateCallbacks, config, trackedMarkets,
                 isRunning, scanInterval, scanDebounceTimer, timeouts,
                 inflight, closing, currentBalance, positions, realizedPnL,
                 tradeHistory, snapshot, copyTrading, cycles, limiterVars>>

\* addTrackedUser(user): nothing when the user is tracked already; else the
\* user is pushed onto config.trackedUsers, the array the poll cycles in
\* flight iterate
AddTrackedUser(user) ==
  LET exists == InSeq(user, copyTrading.config.trackedUsers)
  IN  /\ copyTrading' = IF exists THEN copyTrading
                        ELSE [copyTrading EXCEPT
                                !.config.trackedUsers = Append(@, user)]
      /\ last' = [op |-> "addTrackedUser", user |-> user, added |-> ~exists]
      /\ UNCHANGED <<now, markets, onUpdateCallbacks, config, trackedMarkets,
                     isRunning, scanInterval, scanDebounceTimer, timeouts,
                     inflight, closing, currentBalance, positions,
                     realizedPnL, tradeHistory, snapshot, cycles,
                     activityFeed, limiterVars>>

---------------------------------------------------------------------------
(* ArbitrageService *)

\* the order of one leg of a plan: a BUY at the plan's price
LegOrder(plan, side) ==
  [marketId |-> plan.marketId, side |-> side, action |-> "BUY",
   size |-> IF side = "YES" THEN plan.yesSize ELSE plan.noSize,
   price |-> IF side = "YES" THEN plan.yesPrice ELSE plan.noPrice]

\* the operations that run scanAndExecute
ScanOps == {"start", "fallback", "debounce"}

\* observation: a scan that follows a scan directly is told from it
ScanTurn == IF last.op \in ScanOps THEN 1 - last.turn ELSE 0

\* the guard that balance covers the plan left out
AbortReasonNoBalanceCheck(plan, existingPosition, balance) ==
  IF plan = NoValue THEN "noPlan"
  ELSE IF existingPosition # NoPosition THEN "hasPosition"
  ELSE "none"

\* the guards without the look at the existing position
AbortReasonNoPositionCheck(plan, existingPosition, balance) ==
  IF plan = NoValue THEN "noPlan"
  ELSE IF RLt(balance, plan.totalCost) THEN "insufficient"
  ELSE "none"

\* executeArbitrage's three guards, in the order the code takes them:
\* the return it takes before any order, "none" when it goes on to the legs
AbortReason(plan, existingPosition, balance) ==
  IF plan = NoValue THEN "noPlan"
  ELSE IF existingPosition # NoPosition THEN "hasPosition"
  ELSE IF RLt(balance, plan.totalCost) THEN "insufficient"
  ELSE "none"

\* executeArbitrage(opportunity) up to its first await: the plan, the
\* guards, and the YES leg handed to the engine.  ms is the store as the
\* scan left it; trigger names the caller in the observation.
ExecuteArbitrage(opportunity, ms, trigger) ==
  \E plan \in {createExecutionPlan(opportunity, ms, config, now)} :
    LET seen == [op |-> trigger, turn |-> ScanTurn,
                 attempted |-> <<opportunity.marketId>>]
        reason == AbortReason(plan, positions[opportunity.marketId],
                              currentBalance)
    IN  IF reason = "none"
        THEN \E yes \in {executeTrade(LegOrder(plan, "YES"), currentBalance,
                                      positions, tradeHistory, ms, now)} :
               /\ markets' = yes.markets
               /\ currentBalance' = yes.currentBalance
               /\ positions' = yes.positions
               /\ tradeHistory' = yes.tradeHistory
               /\ inflight' = Append(inflight,
                                [pc |-> "noLeg", plan |-> plan,
                                 yesStatus |-> yes.status,
                                 noStatus |-> "none"])
               /\ last' = seen @@ [outcome |-> "submitted"]
        ELSE /\ markets' = ms
             /\ positions' = IF plan = NoValue THEN positions
                             ELSE getPosition(positions, ms, plan.marketId,
                                              now)
             /\ last' = seen @@ [outcome |-> reason]
             /\ UNCHANGED <<inflight, currentBalance, tradeHistory>>

\* the lowest-ranked opportunity
BestOpportunityLast(opportunities) == opportunities[Len(opportunities)]

\* the opportunity scanAndExecute hands to executeArbitrage
BestOpportunity(opportunities) == opportunities[1]

\* scanAndExecute() up to its first await, cfg being the detector's config
\* when it is called
ScanAndExecute(cfg, trigger) ==
  \E opportunities \in
       {scanOpportunities(markets, trackedMarkets, cfg, now)} :
    \E ms \in {getAllMarkets(markets, now)} :
      IF ~cfg.enabled
      THEN /\ last' = [op |-> trigger, turn |-> ScanTurn,
                       attempted |-> <<>>, outcome |-> "disabled"]
           /\ UNCHANGED <<markets, inflight, currentBalance, positions,
                          tradeHistory>>
      ELSE IF Len(opportunities) = 0
      THEN /\ markets' = ms
           /\ last' = [op |-> trigger, turn |-> ScanTurn,
                       attempted |-> <<>>, outcome |-> "none"]
           /\ UNCHANGED <<inflight, currentBalance, positions, tradeHistory>>
      ELSE ExecuteArbitrage(BestOpportunity(opportunities), ms, trigger)

CanScan == Len(inflight) < MaxInFlight /\ Room >= 2

\* start() without the fallback interval
StartWithoutInterval ==
  /\ ~isRunning
  /\ CanScan
  /\ isRunning' = TRUE
  /\ config' = [config EXCEPT !.enabled = TRUE]
  /\ scanInterval' = FALSE
  /\ ScanAndExecute([config EXCEPT !.enabled = TRUE], "start")
  /\ UNCHANGED <<now, onUpdateCallbacks, trackedMarkets, scanDebounceTimer,
                 timeouts, realizedPnL, snapshot,
                 closing, copyVars>>

\* start(): the fallback interval is armed and a first scan runs at once
Start ==
  /\ ~isRunning
  /\ CanScan
  /\ isRunning' = TRUE
  /\ config' = [config EXCEPT !.enabled = TRUE]
  /\ scanInterval' = TRUE
  /\ ScanAndExecute([config EXCEPT !.enabled = TRUE], "start")
  /\ UNCHANGED <<now, onUpdateCallbacks, trackedMarkets, scanDebounceTimer, timeouts,
                 realizedPnL, snapshot,
                 closing, copyVars>>

\* stop() that leaves the debounce timeout pending
StopKeepingDebounce ==
  /\ isRunning
  /\ isRunning' = FALSE
  /\ config' = [config EXCEPT !.enabled = FALSE]
  /\ scanInterval' = FALSE
  /\ last' = [op |-> "stop", pendingBefore |-> Cardinality(timeouts)]
  /\ UNCHANGED <<now, markets, onUpdateCallbacks, trackedMarkets, inflight, closing,
                 currentBalance, positions, realizedPnL, tradeHistory, snapshot, copyVars,
                 scanDebounceTimer, timeouts>>

\* stop(): nothing when not running; else the detector is disabled, the
\* fallback interval and the debounce timeout are cleared
Stop ==
  /\ isRunning
  /\ isRunning' = FALSE
  /\ config' = [config EXCEPT !.enabled = FALSE]
  /\ scanInterval' = FALSE
  /\ scanDebounceTimer' = NoTimer
  /\ timeouts' = IF scanDebounceTimer # NoTimer
                  THEN clearTimeout(timeouts, scanDebounceTimer)
                  ELSE timeouts
  /\ last' = [op |-> "stop", pendingBefore |-> Cardinality(timeouts)]
  /\ UNCHANGED <<now, markets, onUpdateCallbacks, trackedMarkets, inflight, closing,
                 currentBalance, positions, realizedPnL, tradeHistory, snapshot, copyVars>>

\* the fallback interval fires
FallbackScan ==
  /\ scanInterval
  /\ CanScan
  /\ ScanAndExecute(config, "fallback")
  /\ UNCHANGED <<now, onUpdateCallbacks, config, trackedMarkets, isRunning,
                 scanInterval, scanDebounceTimer, timeouts, realizedPnL, snapshot,
                 closing, copyVars>>

\* the fallback interval fires while executeArbitrage calls are suspended
\* at an await
OverlappingFallbackScan ==
  /\ scanInterval
  /\ inflight # <<>>
  /\ Len(inflight) <= MaxInFlight
  /\ ScanAndExecute(config, "fallback")
  /\ UNCHANGED <<now, onUpdateCallbacks, config, trackedMarkets, isRunning,
                 scanInterval, scanDebounceTimer, timeouts, realizedPnL, snapshot,
                 closing, copyVars>>

\* scanDebounceMs elapse for a pending timeout: it is due
TimeoutElapses(id) ==
  /\ \E x \in timeouts : x.id = id /\ ~x.due
  /\ timeouts' = {[x EXCEPT !.due = (x.due \/ x.id = id)] : x \in timeouts}
  /\ last' = [op |-> "elapse"]
  /\ UNCHANGED <<now, markets, onUpdateCallbacks, config, trackedMarkets,
                 isRunning, scanInterval, scanDebounceTimer, inflight, closing,
                 currentBalance, positions, realizedPnL, tradeHistory,
                 snapshot, copyVars>>

\* a due debounce timeout fires: the scan, then scanDebounceTimer = null
DebounceScan(id) ==
  /\ \E x \in timeouts : x.id = id /\ x.due
  /\ CanScan
  /\ ScanAndExecute(config, "debounce")
  /\ scanDebounceTimer' = NoTimer
  /\ timeouts' = {x \in timeouts : x.id # id}
  /\ UNCHANGED <<now, onUpdateCallbacks, config, trackedMarkets, isRunning,
                 scanInterval, realizedPnL, snapshot,
                 closing, copyVars>>

\* a due debounce timeout fires while executeArbitrage calls are suspended
\* at an await
OverlappingDebounceScan(id) ==
  /\ \E x \in timeouts : x.id = id /\ x.due
  /\ inflight # <<>>
  /\ Len(inflight) <= MaxInFlight
  /\ ScanAndExecute(config, "debounce")
  /\ scanDebounceTimer' = NoTimer
  /\ timeouts' = {x \in timeouts : x.id # id}
  /\ UNCHANGED <<now, onUpdateCallbacks, config, trackedMarkets, isRunning,
                 scanInterval, realizedPnL, snapshot,
                 closing, copyVars>>

\* executeArbitrage resumes after the YES leg: the NO leg goes to the engine
ArbNoLeg(i) ==
  /\ i \in 1..Len(inflight)
  /\ inflight[i].pc = "noLeg"
  /\ LET plan == inflight[i].plan
         no == executeTrade(LegOrder(plan, "NO"), currentBalance, positions,
                            tradeHistory, markets, now)
     IN  /\ markets' = no.markets
         /\ currentBalance' = no.currentBalance
         /\ positions' = no.positions
         /\ tradeHistory' = no.tradeHistory
         /\ inflight' = [inflight EXCEPT ![i].pc = "check",
                                         ![i].noStatus = no.status]
         /\ last' = [op |-> "noLeg", status |-> no.status]
  /\ UNCHANGED <<now, onUpdateCallbacks, config, trackedMarkets, isRunning,
                 scanInterval, scanDebounceTimer, timeouts, realizedPnL, snapshot,
                 closing, copyVars>>


\* marking the market when either leg filled
TrackIfAnyFilled(tracked, call) ==
  IF call.yesStatus = "filled" \/ call.noStatus = "filled"
  THEN markMarketTracked(tracked, call.plan.marketId)
  ELSE tracked

\* the tracked set once executeArbitrage has both results
TrackIfBothFilled(tracked, call) ==
  IF call.yesStatus = "filled" /\ call.noStatus = "filled"
  THEN markMarketTracked(tracked, call.plan.marketId)
  ELSE tracked

\* executeArbitrage resumes after the NO leg: both filled marks the market
ArbFinish(i) ==
  /\ i \in 1..Len(inflight)
  /\ inflight[i].pc = "check"
  /\ trackedMarkets' = TrackIfBothFilled(trackedMarkets, inflight[i])
  /\ inflight' = RemoveAt(inflight, i)
  /\ last' = [op |-> "executeArbitrageDone", call |-> inflight[i]]
  /\ UNCHANGED <<now, markets, onUpdateCallbacks, config, isRunning,
                 scanInterval, scanDebounceTimer, timeouts, currentBalance, positions,
                 realizedPnL, tradeHistory, snapshot,
                 closing, copyVars>>

---------------------------------------------------------------------------
(* Inputs *)

Book(bid, ask) ==
  [bids |-> IF bid = Null THEN <<>> ELSE <<bid>>,
   asks |-> IF ask = Null THEN <<>> ELSE <<ask>>]

\* order-book updates for the markets ids, the YES and the NO books drawn
\* from their own sets, stamped with a time of times
FeedUpdates(ids, yesBooks, noBooks, times) ==
  { [marketId |-> m, outcome |-> "YES", bids |-> b.bids, asks |-> b.asks,
     timestamp |-> ts] : m \in ids, b \in yesBooks, ts \in times }
  \cup
  { [marketId |-> m, outcome |-> "NO", bids |-> b.bids, asks |-> b.asks,
     timestamp |-> ts] : m \in ids, b \in noBooks, ts \in times }


\* configurations updateConfig sets (enabled is left as it is)
TightConfig ==
  [minProfitThreshold |-> P(40), feeBuffer |-> Zero, safetyMargin |-> Zero,
   maxPositionSize |-> Usd(100), enabled |-> FALSE]
WideMarginConfig ==
  [minProfitThreshold |-> P(10), feeBuffer |-> P(20), safetyMargin |-> P(30),
   maxPositionSize |-> Usd(100), enabled |-> FALSE]
Configs == {DefaultConfig, TightConfig, WideMarginConfig}

---------------------------------------------------------------------------
(* SpecDetector: the detector on one market of the store *)

DetIds == {"m1"}
DetYesBooks == {Book(Null, Null), Book(Null, Zero), Book(Null, P(450))}
DetNoBooks == {Book(Null, Null), Book(Null, P(500)), Book(Null, P(520)),
               Book(Null, P(522))}

NextDetector ==
  \/ Tick
  \/ \E u \in FeedUpdates(DetIds, DetYesBooks, DetNoBooks, {now}) :
        UpdateOrderBook(u, {})
  \/ \E m \in DetIds : RemoveMarket(m)
  \/ \E i \in 1..Cardinality(DetIds) : DetectCall(i)
  \/ TakeSnapshot
  \/ \E i \in 1..Cardinality(DetIds) : PlanCall(i)
  \/ \E m \in DetIds : MarkMarketTracked(m)
  \/ \E m \in DetIds : UnmarkMarket(m)
  \/ \E cfg \in Configs : UpdateConfig(cfg)

SpecDetector == Init /\ [][NextDetector]_vars

\* the market of the store with this id (the id is in the store)
MarketOf(id) == markets[KeyIndex(markets, id)]

\* C6: detectArbitrage(m) returns an opportunity iff both asks are present
\* and > 0, yesAsk + noAsk < 1 - feeBuffer - safetyMargin and
\* (1 - totalCost) - feeBuffer >= minProfitThreshold; asks 0.45/0.50 under
\* the default thresholds give profitMargin 0.05 and profitAfterFees 0.03.
C6_DetectIff ==
  last.op = "detectArbitrage" =>
    LET m == MarketOf(last.marketId)
        ya == m.yesPrices.ask
        na == m.noPrices.ask
        present == ya # Null /\ na # Null
        total == RAdd(ya, na)
        paf == RSub(RSub(One, total), config.feeBuffer)
        claimed ==
          /\ present
          /\ RLt(Zero, ya) /\ RLt(Zero, na)
          /\ RLt(total, RSub(RSub(One, config.feeBuffer), config.safetyMargin))
          /\ RLe(config.minProfitThreshold, paf)
    IN  /\ (last.result # NoValue) <=> claimed
        /\ last.result # NoValue =>
             /\ last.result.totalCost = total
             /\ last.result.profitMargin = RSub(One, total)
             /\ last.result.profitAfterFees = paf
        /\ ( /\ present /\ ya = P(450) /\ na = P(500)
             /\ [config EXCEPT !.enabled = FALSE] = DefaultConfig )
           => /\ last.result # NoValue
              /\ last.result.profitMargin = P(50)
              /\ last.result.profitAfterFees = P(30)

C6_Witness ==
  /\ last.op = "detectArbitrage"
  /\ last.result # NoValue
  /\ last.result.yesAsk = P(450) /\ last.result.noAsk = P(500)
  /\ last.result.profitAfterFees = P(30)

\* C7: scanOpportunities returns no stale market and no tracked market,
\* whatever their asks, and a tracked market stays tracked until
\* unmarkMarket is called for it.
C7_ScanExcludesStaleAndTracked ==
  [][ /\ last'.op = "scanOpportunities" =>
           \A i \in 1..Len(snapshot') :
              /\ snapshot'[i].marketId \notin trackedMarkets
              /\ ~isStale(MarketOf(snapshot'[i].marketId).lastUpdate, now)
      /\ \A m \in trackedMarkets :
           \/ m \in trackedMarkets'
           \/ last'.op = "unmarkMarket" /\ last'.marketId = m ]_vars

C7_Witness ==
  /\ last.op = "scanOpportunities"
  /\ snapshot = <<>>
  /\ \E i \in 1..Len(markets) :
        /\ markets[i].marketId \in trackedMarkets
        /\ ~isStale(markets[i].lastUpdate, now)
        /\ detectArbitrage(markets[i], config) # NoValue

\* C8 as claimed: createExecutionPlan returns null exactly when the market
\* or an ask is missing or 1 - yesAsk - noAsk - feeBuffer (detectArbitrage's
\* profitAfterFees at the live asks) is below minProfitThreshold, and
\* otherwise a plan priced at the live asks.
C8_PlanNullIffProfitBelowThreshold ==
  last.op = "createExecutionPlan" =>
    LET id == last.opportunity.marketId
        m == MarketOf(id)
        missing == \/ ~HasMarket(markets, id)
                   \/ m.yesPrices.ask = Null
                   \/ m.noPrices.ask = Null
        currentProfitAfterFees ==
          RSub(RSub(One, RAdd(m.yesPrices.ask, m.noPrices.ask)),
               config.feeBuffer)
    IN  /\ (last.plan = NoValue) <=>
             (missing \/ RLt(currentProfitAfterFees, config.minProfitThreshold))
        /\ last.plan # NoValue =>
             /\ last.plan.yesPrice = m.yesPrices.ask
             /\ last.plan.noPrice = m.noPrices.ask

\* C9: a non-null plan has yesSize = noSize = totalSize / 2 and
\* totalCost = totalSize, totalSize being maxPositionSize when
\* maxPositionSize * profitAfterFees / minProfitThreshold is not below it,
\* and that quotient otherwise.
C9_PlanSize ==
  (last.op = "createExecutionPlan" /\ last.plan # NoValue) =>
    LET scaled == RDiv(RMul(config.maxPositionSize,
                            last.opportunity.profitAfterFees),
                       config.minProfitThreshold)
        totalSize == IF RLt(scaled, config.maxPositionSize)
                     THEN scaled ELSE config.maxPositionSize
    IN  /\ last.plan.yesSize = RDiv(totalSize, Usd(2))
        /\ last.plan.noSize = last.plan.yesSize
        /\ last.plan.totalCost = totalSize
        /\ RLe(last.plan.totalCost, config.maxPositionSize)

C9_Witness ==
  /\ last.op = "createExecutionPlan"
  /\ last.plan # NoValue
  /\ RLt(last.plan.totalCost, config.maxPositionSize)
  /\ last.plan.yesSize = RDiv(last.plan.totalCost, Usd(2))

---------------------------------------------------------------------------
(* SpecStore: the store under the feed, with callbacks that may throw *)

StoreIds == {"m1", "m2"}
StoreBooks == {Book(Null, Null), Book(P(400), P(450)), Book(Null, Zero)}
AuxCallbacks == {"aux1", "aux2"}
\* feeBuffer arguments: the default 0, and 0.1, which 0.45 + 0.45 just misses
FeeBuffers == {Zero, P(100)}

Registered(cbs) == {c \in AuxCallbacks : InSeq(c, cbs)}

NextStore ==
  \/ Tick
  \/ \E u \in FeedUpdates(StoreIds, StoreBooks, StoreBooks, {now}) :
       \E throwing \in SUBSET Registered(onUpdateCallbacks) :
          UpdateOrderBook(u, throwing)
  \/ \E cb \in AuxCallbacks : OnUpdate(cb)
  \/ \E cb \in AuxCallbacks : OffUpdate(cb)
  \/ \E m \in StoreIds : RemoveMarket(m)
  \/ \E feeBuffer \in FeeBuffers : GetArbitrageOpportunities(feeBuffer)

SpecStore == Init /\ [][NextStore]_vars

\* C10: updateOrderBook invokes the registered callbacks, all of them and
\* in order even when some throw, if the merged market has a non-null YES
\* ask and a non-null NO ask, and invokes none otherwise.
C10_CallbacksOnlyWithBothAsks ==
  last.op = "updateOrderBook" =>
    LET m == MarketOf(last.marketId)
    IN  last.ran = IF m.yesPrices.ask # Null /\ m.noPrices.ask # Null
                   THEN onUpdateCallbacks
                   ELSE <<>>

C10_Witness ==
  /\ last.op = "updateOrderBook"
  /\ \E i, j \in 1..Len(last.ran) :
        i < j /\ last.ran[i] \in last.throwing

---------------------------------------------------------------------------
(* SpecEngine: the engine under orders of the trade API, over one market *)

EngIds == {"m1"}
EngYesBooks == {Book(Null, Null), Book(P(400), P(500)), Book(P(400), P(1200))}
EngNoBooks == {Book(P(400), P(500))}

Order(m, side, action, size, price) ==
  [marketId |-> m, side |-> side, action |-> action, size |-> size,
   price |-> price]

\* orders of the trade API: limit and market orders (price undefined),
\* a size the starting balance covers once
ApiOrders ==
  { Order("m1", "YES", "BUY", Usd(600), P(500)),
    Order("m1", "YES", "BUY", Usd(600), Null),
    Order("m1", "YES", "SELL", Usd(600), P(500)),
    Order("m1", "YES", "SELL", Usd(600), Null),
    Order("m1", "NO", "BUY", Usd(600), P(1200)),
    Order("m1", "NO", "SELL", Usd(600), P(500)),
    Order("m1", "YES", "BUY", Usd(300), P(250)) }

NextEngine ==
  \/ \E u \in FeedUpdates(EngIds, EngYesBooks, EngNoBooks, {now}) :
        UpdateOrderBook(u, {})
  \/ \E order \in ApiOrders : ExecuteTrade(order)

SpecEngine == Init /\ [][NextEngine]_vars

\* the tokens the ledger holds on the order's side of its market
TokensHeld(pos, order) ==
  IF pos[order.marketId] = NoPosition THEN Zero
  ELSE IF order.side = "YES" THEN pos[order.marketId].yesTokens
  ELSE pos[order.marketId].noTokens

\* C1: executeTrade returns status 'rejected' exactly when a market order
\* finds no market data, the resolved fill price is <= 0 or > 1, or a BUY
\* finds balance < order.size; a rejected call leaves balance, positions,
\* realizedPnL and the trade history as they were, and the rejection is the
\* status of the returned result.
C1_RejectedLeavesEngineUnchanged ==
  [][ last'.op = "executeTrade" =>
        LET order == last'.order
            limit == ~Falsy(order.price)
            known == HasMarket(markets, order.marketId)
            prices == IF order.side = "YES"
                      THEN MarketOf(order.marketId).yesPrices
                      ELSE MarketOf(order.marketId).noPrices
            quote == IF order.action = "BUY" THEN prices.ask ELSE prices.bid
            resolved == IF limit THEN order.price
                        ELSE IF quote = Null THEN Zero ELSE quote
            claimed ==
              \/ ~limit /\ ~known
              \/ (limit \/ known) /\ (RLe(resolved, Zero) \/ RLt(One, resolved))
              \/ order.action = "BUY" /\ RLt(currentBalance, order.size)
        IN  /\ last'.status \in {"filled", "rejected"}
            /\ last'.status = "rejected" <=> claimed
            /\ last'.status = "rejected" =>
                  UNCHANGED <<currentBalance, positions, realizedPnL,
                              tradeHistory>> ]_vars

C1_Witness ==
  /\ last.op = "executeTrade"
  /\ last.status = "rejected"
  /\ last.order.action = "BUY"
  /\ ~Falsy(last.order.price) /\ RLe(last.order.price, One)
  /\ RLt(currentBalance, last.order.size)
  /\ tradeHistory # <<>>

\* C2 as claimed: a SELL on an outcome of which the ledger holds zero
\* tokens (no position, or a position with 0 tokens on that side) returns
\* 'rejected' and leaves the balance and the positions map as they were.
C2_SellOnZeroTokensRejected ==
  [][ ( /\ last'.op = "executeTrade"
        /\ last'.order.action = "SELL"
        /\ TokensHeld(positions, last'.order) = Zero )
      => /\ last'.status = "rejected"
         /\ UNCHANGED <<currentBalance, positions>> ]_vars

---------------------------------------------------------------------------
(* Spec: the arbitrage service on the engine and the store, with one
   order of the trade API that takes most of the balance *)

ArbFeed ==
  FeedUpdates({"m1"}, {Book(Null, P(450))},
              {Book(Null, P(500)), Book(Null, P(520))}, {now})
  \cup FeedUpdates({"m2"}, {Book(Null, P(450))}, {Book(Null, P(500))}, {now})

DrainOrder == Order("m2", "YES", "BUY", Usd(950), P(500))

Next ==
  \/ \E u \in ArbFeed : UpdateOrderBook(u, {})
  \/ ExecuteTrade(DrainOrder)
  \/ Start
  \/ Stop
  \/ FallbackScan
  \/ \E x \in timeouts : TimeoutElapses(x.id)
  \/ \E x \in timeouts : DebounceScan(x.id)
  \/ \E i \in 1..MaxInFlight : ArbNoLeg(i)
  \/ \E i \in 1..MaxInFlight : ArbFinish(i)
  \/ \E m \in MarketIds : UnmarkMarket(m)

Spec == Init /\ [][Next]_vars

\* C3: when an executeArbitrage call ends, the plan's market is tracked
\* iff both legs returned 'filled', no other market's tracking changes and
\* the ledger is left as the legs made it (no unwinding order); the YES leg
\* is submitted in the call's first step and the NO leg after it, each a
\* BUY; a call that aborts before its legs leaves the market untracked.
C3_TrackedIffBothLegsFilled ==
  [][ /\ last'.op = "executeArbitrageDone" =>
           LET call == last'.call
               m == call.plan.marketId
           IN  /\ m \in trackedMarkets' <=>
                     (call.yesStatus = "filled" /\ call.noStatus = "filled")
               /\ trackedMarkets' \ {m} = trackedMarkets \ {m}
               /\ UNCHANGED <<currentBalance, positions, realizedPnL,
                              tradeHistory>>
      /\ (last'.op \in ScanOps /\ last'.outcome = "submitted") =>
           LET call == inflight'[Len(inflight')]
           IN  /\ Len(inflight') = Len(inflight) + 1
               /\ call.yesStatus \in {"filled", "rejected"}
               /\ call.noStatus = "none"
               /\ call.yesStatus = "filled" =>
                     /\ tradeHistory' # tradeHistory
                     /\ LET t == tradeHistory'[Len(tradeHistory')]
                        IN  /\ t.side = "YES" /\ t.action = "BUY"
                            /\ t.marketId = call.plan.marketId
               /\ call.yesStatus = "rejected" => tradeHistory' = tradeHistory
      /\ last'.op = "noLeg" =>
           \A i \in 1..Len(inflight) :
              inflight'[i] # inflight[i] =>
                /\ inflight[i].yesStatus # "none"
                /\ inflight[i].noStatus = "none"
                /\ inflight'[i].noStatus = last'.status
                /\ last'.status = "filled" =>
                      LET t == tradeHistory'[Len(tradeHistory')]
                      IN  /\ t.side = "NO" /\ t.action = "BUY"
                          /\ t.marketId = inflight[i].plan.marketId
                /\ last'.status = "rejected" => tradeHistory' = tradeHistory
      /\ ( /\ last'.op \in ScanOps
           /\ last'.outcome \in {"noPlan", "hasPosition", "insufficient"} )
         => last'.attempted[1] \notin trackedMarkets' ]_vars

C3_Witness ==
  /\ last.op = "executeArbitrageDone"
  /\ last.call.yesStatus = "filled"
  /\ last.call.noStatus = "rejected"
  /\ last.call.plan.marketId \notin trackedMarkets
  /\ LET position == positions[last.call.plan.marketId]
     IN  /\ position # NoPosition
         /\ RLt(Zero, position.yesTokens)
         /\ position.noTokens = Zero

---------------------------------------------------------------------------
(* SpecScan: the arbitrage service under the feed and the clock, so that
   markets go stale between scans *)

NextScan ==
  \/ Tick
  \/ \E u \in ArbFeed : UpdateOrderBook(u, {})
  \/ Start
  \/ Stop
  \/ FallbackScan
  \/ \E x \in timeouts : TimeoutElapses(x.id)
  \/ \E x \in timeouts : DebounceScan(x.id)
  \/ \E i \in 1..MaxInFlight : ArbNoLeg(i)
  \/ \E i \in 1..MaxInFlight : ArbFinish(i)
  \/ \E m \in MarketIds : UnmarkMarket(m)

SpecScan == Init /\ [][NextScan]_vars

\* C4: a scan attempts at most one opportunity, the market of maximal
\* profitAfterFees among the non-stale, untracked markets that
\* detectArbitrage accepts, the earliest inserted of those that tie; no
\* other market is touched in the scan, and when the attempt aborts the
\* scan submits nothing.
C4_ScanAttemptsOnlyTopRanked ==
  [][ last'.op \in ScanOps =>
        LET found(i) == detectArbitrage(markets[i], config')
            candidates ==
              { i \in 1..Len(markets) :
                  /\ ~isStale(markets[i].lastUpdate, now)
                  /\ markets[i].marketId \notin trackedMarkets
                  /\ found(i) # NoValue }
            top ==
              { i \in candidates :
                  \A j \in candidates :
                     \/ RLt(found(j).profitAfterFees, found(i).profitAfterFees)
                     \/ /\ found(j).profitAfterFees = found(i).profitAfterFees
                        /\ i <= j }
        IN  /\ Len(last'.attempted) <= 1
            /\ candidates # {} =>
                  \E i \in top : last'.attempted = <<markets[i].marketId>>
            /\ candidates = {} => last'.attempted = <<>>
            /\ Len(inflight') <= Len(inflight) + 1
            /\ Len(tradeHistory') <= Len(tradeHistory) + 1
            /\ \A m \in MarketIds :
                  (last'.attempted # <<m>>) => positions'[m] = positions[m]
            /\ last'.outcome # "submitted" =>
                  UNCHANGED <<inflight, currentBalance, tradeHistory>> ]_vars

\* a tie: m2 was inserted before m1, both are fresh and untracked with the
\* same profitAfterFees, and the scan attempted m2
C4_Witness ==
  /\ last.op \in ScanOps
  /\ last.attempted = <<"m2">>
  /\ Len(markets) = 2
  /\ markets[1].marketId = "m2"
  /\ "m1" \notin trackedMarkets
  /\ ~isStale(markets[2].lastUpdate, now)
  /\ detectArbitrage(markets[1], config) # NoValue
  /\ detectArbitrage(markets[2], config) # NoValue
  /\ detectArbitrage(markets[1], config).profitAfterFees =
       detectArbitrage(markets[2], config).profitAfterFees

\* C5 as claimed: when the plan is null, a position exists for the market,
\* or balance < plan.totalCost, executeArbitrage submits no order and
\* leaves balance, the positions map, the trade history and trackedMarkets
\* as they were.
C5_AbortChangesNoState ==
  [][ ( /\ last'.op \in ScanOps
        /\ last'.attempted # <<>>
        /\ LET m == last'.attempted[1]
               ms == getAllMarkets(markets, now)
               plan == createExecutionPlan(
                         detectArbitrage(ms[KeyIndex(ms, m)], config'),
                         ms, config', now)
           IN  \/ plan = NoValue
               \/ positions[m] # NoPosition
               \/ RLt(currentBalance, plan.totalCost) )
      => /\ last'.outcome # "submitted"
         /\ UNCHANGED <<inflight, currentBalance, positions, tradeHistory,
                        trackedMarkets>> ]_vars

\* C5, amended: in those three cases executeArbitrage submits no order and
\* leaves balance, trade history, realizedPnL and trackedMarkets as they
\* were; no position is created or removed and every position keeps its
\* tokens, entry prices and entry cost; the one change is that the read of
\* an existing position of the plan's market refreshes that position's
\* current prices and unrealizedPnL from the store.
C5_AbortKeepsLedger ==
  [][ ( /\ last'.op \in ScanOps
        /\ last'.attempted # <<>>
        /\ LET m == last'.attempted[1]
               ms == getAllMarkets(markets, now)
               plan == createExecutionPlan(
                         detectArbitrage(ms[KeyIndex(ms, m)], config'),
                         ms, config', now)
           IN  \/ plan = NoValue
               \/ positions[m] # NoPosition
               \/ RLt(currentBalance, plan.totalCost) )
      => LET m == last'.attempted[1]
             ms == getAllMarkets(markets, now)
             plan == createExecutionPlan(
                       detectArbitrage(ms[KeyIndex(ms, m)], config'),
                       ms, config', now)
         IN  /\ last'.outcome # "submitted"
             /\ UNCHANGED <<inflight, currentBalance, tradeHistory,
                            realizedPnL, trackedMarkets>>
             /\ \A k \in MarketIds \ {m} : positions'[k] = positions[k]
             /\ (plan = NoValue \/ positions[m] = NoPosition)
                  => positions'[m] = positions[m]
             /\ (plan # NoValue /\ positions[m] # NoPosition)
                  => /\ positions'[m] # NoPosition
                     /\ positions'[m] =
                          [positions[m] EXCEPT
                             !.yesCurrentPrice = positions'[m].yesCurrentPrice,
                             !.noCurrentPrice = positions'[m].noCurrentPrice,
                             !.unrealizedPnL = positions'[m].unrealizedPnL]
                     /\ positions'[m].yesCurrentPrice =
                          FirstTruthy(ms[KeyIndex(ms, m)].yesPrices.ask,
                                      ms[KeyIndex(ms, m)].yesPrices.bid) ]_vars

C5_Witness ==
  /\ last.op \in ScanOps
  /\ last.outcome = "hasPosition"
  /\ positions[last.attempted[1]].yesCurrentPrice # Null
  /\ inflight = <<>>

---------------------------------------------------------------------------
(* Claims on the store's reads and contents, under SpecStore *)

\* C11: a market is in getArbitrageOpportunities(feeBuffer) iff both asks
\* are present, yesAsk + noAsk < 1 - feeBuffer and the market is not stale,
\* staleness being now - lastUpdate > threshold at the time of the read.
C11_ArbitrageOpportunitiesIff ==
  last.op = "getArbitrageOpportunities" =>
    /\ \A i \in 1..Len(markets) :
          (\E k \in 1..Len(last.result) :
              last.result[k].marketId = markets[i].marketId)
          <=> ( /\ markets[i].yesPrices.ask # Null
                /\ markets[i].noPrices.ask # Null
                /\ RLt(RAdd(markets[i].yesPrices.ask, markets[i].noPrices.ask),
                       RSub(One, last.feeBuffer))
                /\ now - markets[i].lastUpdate <= staleThresholdMs )
    /\ \A k \in 1..Len(last.result) :
          HasMarket(markets, last.result[k].marketId)

\* one market returned and one left out for being stale, with the same asks
C11_Witness ==
  /\ last.op = "getArbitrageOpportunities"
  /\ Len(last.result) = 1
  /\ Len(markets) = 2
  /\ \E i \in 1..2 :
        /\ markets[i].marketId # last.result[1].marketId
        /\ markets[i].yesPrices = last.result[1].yesPrices
        /\ markets[i].noPrices = last.result[1].noPrices
        /\ now - markets[i].lastUpdate > staleThresholdMs

\* C12 as claimed: each market holds one YES and one NO quote, and every
\* bid or ask stored, when not null, lies in (0, 1].
C12_StoredPricesInUnitInterval ==
  \A i \in 1..Len(markets) :
    /\ \A j \in 1..Len(markets) :
          markets[j].marketId = markets[i].marketId => i = j
    /\ \A q \in {markets[i].yesPrices.bid, markets[i].yesPrices.ask,
                  markets[i].noPrices.bid, markets[i].noPrices.ask} :
          q # Null => (RLt(Zero, q) /\ RLe(q, One))

---------------------------------------------------------------------------
(* SpecTimers: the service's two timers under a feed that offers no
   opportunity.  setInterval fires its callback again and again while it
   is armed; a timeout fires only if it stays due. *)

TimerFeed ==
  FeedUpdates({"m1", "m2"}, {Book(Null, P(450)), Book(Null, Null)},
              {Book(Null, P(600))}, {now})

NextTimers ==
  \/ \E u \in TimerFeed : UpdateOrderBook(u, {})
  \/ Start
  \/ Stop
  \/ FallbackScan
  \/ \E x \in timeouts : TimeoutElapses(x.id)
  \/ \E x \in timeouts : DebounceScan(x.id)

SpecTimers == Init /\ [][NextTimers]_vars /\ WF_vars(FallbackScan)

\* C13: at most one debounce timeout is pending and it is the one
\* scanDebounceTimer holds; a store callback that arrives while the service
\* runs leaves exactly one timeout, not yet due, so callbacks less than a
\* window apart keep pushing one scan back; a debounce scan fires only from
\* a due timeout and leaves none pending, so a burst gives at most one scan.
C13_OneDebounceTimerOneScanPerBurst ==
  [][ /\ Cardinality(timeouts') <= 1
      /\ \A x \in timeouts' : scanDebounceTimer' = x.id
      /\ timeouts' = {} => scanDebounceTimer' = NoTimer
      /\ ( /\ last'.op = "updateOrderBook"
           /\ InSeq("debouncedScan", last'.ran)
           /\ isRunning /\ config.enabled )
         => /\ Cardinality(timeouts') = 1
            /\ \A x \in timeouts' : ~x.due
      /\ last'.op = "debounce" =>
            /\ \E x \in timeouts : x.due
            /\ timeouts' = {} ]_vars

\* a callback arrived while a timeout was pending, and one is pending still
C13_Witness ==
  /\ last.op = "updateOrderBook"
  /\ InSeq("debouncedScan", last.ran)
  /\ last.pendingBefore = 1
  /\ isRunning
  /\ Cardinality(timeouts) = 1

\* C14: if the service stays running and enabled, scans are invoked again
\* and again, whatever the feed does: silent, or resetting the debounce
\* timeout before it is ever due.
C14_ScansRecurWhileRunning ==
  (<>[](isRunning /\ config.enabled)) => []<><<last'.op \in ScanOps>>_vars

\* two fallback scans in a row while a debounce timeout is pending, not due
C14_Witness ==
  /\ last.op = "fallback"
  /\ last.turn = 1
  /\ isRunning /\ config.enabled
  /\ \E x \in timeouts : ~x.due

---------------------------------------------------------------------------
(* Claims on the ledger's arithmetic, under SpecEngine *)

\* the records of the history for one outcome of a market, by action
RecordsOf(hist, m, side, action) ==
  SelectSeq(hist, LAMBDA t : t.marketId = m /\ t.side = side
                             /\ t.action = action)

\* USD spent and tokens received over a sequence of fills
RECURSIVE SumSize(_)
SumSize(records) ==
  IF records = <<>> THEN Zero
  ELSE RAdd(Head(records).size, SumSize(Tail(records)))

RECURSIVE SumTokens(_)
SumTokens(records) ==
  IF records = <<>> THEN Zero
  ELSE RAdd(RDiv(Head(records).size, Head(records).price),
            SumTokens(Tail(records)))

\* C15: every position has totalEntryCost = yesTokens * yesEntryPrice +
\* noTokens * noEntryPrice, and an outcome that was bought and never sold
\* holds the tokens bought at entry price = USD spent / tokens held.
C15_EntryPriceIsCostOverTokens ==
  \A m \in MarketIds :
    positions[m] # NoPosition =>
      /\ positions[m].totalEntryCost =
           RAdd(RMul(positions[m].yesTokens, positions[m].yesEntryPrice),
                RMul(positions[m].noTokens, positions[m].noEntryPrice))
      /\ \A side \in Outcomes :
           LET buys == RecordsOf(tradeHistory, m, side, "BUY")
               sells == RecordsOf(tradeHistory, m, side, "SELL")
               held == IF side = "YES" THEN positions[m].yesTokens
                       ELSE positions[m].noTokens
               entry == IF side = "YES" THEN positions[m].yesEntryPrice
                        ELSE positions[m].noEntryPrice
           IN  (buys # <<>> /\ sells = <<>>) =>
                 /\ held = SumTokens(buys)
                 /\ entry = RDiv(SumSize(buys), held)

\* two buys of YES at different prices, nothing sold
C15_Witness ==
  /\ positions["m1"] # NoPosition
  /\ RecordsOf(tradeHistory, "m1", "YES", "SELL") = <<>>
  /\ \E i, j \in 1..Len(tradeHistory) :
        /\ tradeHistory[i].side = "YES" /\ tradeHistory[j].side = "YES"
        /\ tradeHistory[i].action = "BUY" /\ tradeHistory[j].action = "BUY"
        /\ tradeHistory[i].price # tradeHistory[j].price
  /\ positions["m1"].yesEntryPrice = P(375)

---------------------------------------------------------------------------
(* SpecHistory: the engine with a trade history at its cap.  The initial
   states are the engine after HistoryCap - 1 and after HistoryCap fills of
   a limit BUY and a limit SELL of YES taken in turn, the store still
   empty; the records written before are numbered up to 0. *)

\* the order of the i-th of those fills
TurnOrder(i) ==
  Order("m1", "YES", IF i % 2 = 1 THEN "BUY" ELSE "SELL", Usd(600), P(500))

\* the history after n of them
TurnHistory(n) ==
  [i \in 1..n |->
     [tradeId |-> i - n, marketId |-> "m1", side |-> "YES",
      action |-> TurnOrder(i).action, size |-> Usd(600), price |-> P(500),
      status |-> "filled"]]

InitHistory ==
  \E n \in {HistoryCap - 1, HistoryCap} :
    /\ now = 0
    /\ markets = <<>>
    /\ onUpdateCallbacks = <<"debouncedScan">>
    /\ config = DefaultConfig
    /\ trackedMarkets = {}
    /\ isRunning = FALSE
    /\ scanInterval = FALSE
    /\ scanDebounceTimer = NoTimer
    /\ timeouts = {}
    /\ inflight = <<>>
    /\ closing = <<>>
    /\ copyTrading = NewCopyTradingService
    /\ cycles = <<>>
    /\ activityFeed = [u \in CopyUsers |-> <<>>]
    /\ rateLimitRequests = <<>>
    /\ limiterCalls = <<>>
    /\ requests = <<>>
    /\ tradeHistory = TurnHistory(n)
    /\ currentBalance = IF n % 2 = 1 THEN Usd(CAPITAL - 600) ELSE Usd(CAPITAL)
    /\ positions =
         [m \in MarketIds |->
            IF m # "m1" THEN NoPosition
            ELSE IF n % 2 = 1
            THEN [NewPosition EXCEPT !.yesTokens = Usd(1200),
                                     !.yesEntryPrice = P(500),
                                     !.totalEntryCost = Usd(600)]
            ELSE NewPosition]
    /\ realizedPnL = Zero
    /\ snapshot = <<>>
    /\ last = [op |-> "init"]

NextHistory ==
  \/ \E order \in ApiOrders : ExecuteTrade(order)
  \/ \E w \in {0, 1} : RedeemPosition("m1", w)

SpecHistory == InitHistory /\ [][NextHistory]_vars

\* C16: the history never holds more than 1000 records; a fill or a
\* redemption appends one record, and when the log was full exactly the
\* oldest record goes: the records kept are the same, in the same order.
C16_HistoryKeepsLast1000 ==
  [][ /\ Len(tradeHistory') <= 1000
      /\ tradeHistory' # tradeHistory =>
            LET kept == IF Len(tradeHistory) = 1000
                        THEN Tail(tradeHistory) ELSE tradeHistory
            IN  /\ Len(tradeHistory') = Len(kept) + 1
                /\ SubSeq(tradeHistory', 1, Len(kept)) = kept
                /\ tradeHistory'[Len(tradeHistory')].tradeId =
                     LastTradeId(tradeHistory) + 1 ]_vars

\* a full log whose oldest record is one written after the start: the
\* records before it were dropped, and the newest is a redemption
C16_Witness ==
  /\ Len(tradeHistory) = 1000
  /\ last.op = "redeemPosition" /\ last.found
  /\ tradeHistory[1000].price = One
  /\ tradeHistory[1].tradeId = tradeHistory[1000].tradeId - 999
  /\ tradeHistory[1000].tradeId >= 2

---------------------------------------------------------------------------
(* The ledger under closes and redemptions: orders of the trade API build a
   position in m1, the feed moves its bids, closePosition and redeemPosition
   take it off the ledger *)

LedgerYesBooks == {Book(P(500), Null)}
LedgerNoBooks == {Book(P(300), Null)}

\* 10 YES tokens at 0.4 and 5 NO tokens at 0.5
LedgerOrders ==
  { Order("m1", "YES", "BUY", Usd(4), P(400)),
    Order("m1", "NO", "BUY", Rat(5, 2), P(500)) }

NextLedger ==
  \/ \E u \in FeedUpdates(EngIds, LedgerYesBooks, LedgerNoBooks, {now}) :
        UpdateOrderBook(u, {})
  \/ \E order \in LedgerOrders : ExecuteTrade(order)
  \/ ClosePosition("m1")
  \/ \E i \in 1..Len(closing) : CloseResume(i)
  \/ \E w \in {0, 1} : RedeemPosition("m1", w)

SpecLedger == Init /\ [][NextLedger]_vars

\* tokens * (fillPrice - entryPrice) summed over the legs a close submitted,
\* with the tokens and the entry price the position had before the leg
RECURSIVE SumLegPnL(_)
SumLegPnL(legs) ==
  IF legs = <<>> THEN Zero
  ELSE RAdd(RMul(legs[1].tokens, RSub(legs[1].fillPrice, legs[1].entryPrice)),
            SumLegPnL(Tail(legs)))

\* C17: a closePosition that returns has added to realizedPnL the sum over
\* its legs of tokens * (fillPrice - entryPrice), tokens and entry price as
\* they were before the close, and the position is off the ledger.
C17_CloseRealizesLegPnL ==
  [][ (last'.op = "closePosition" /\ last'.found /\ last'.done) =>
         /\ last'.added = SumLegPnL(last'.legs)
         /\ positions'[last'.marketId] = NoPosition ]_vars

\* C18: every leg closePosition submits is priced at the best bid, or at the
\* leg's entry price when the store has no bid for it; the SELL fills and
\* the balance is credited tokens * fillPrice.
C18_CloseLegFillsAtBidOrEntry ==
  [][ (last'.op = "closePosition" /\ last'.leg # NoValue) =>
         LET leg == last'.leg
         IN  /\ leg.fillPrice = (IF leg.bid = Null THEN leg.entryPrice
                                 ELSE leg.bid)
             /\ leg.status = "filled"
             /\ currentBalance' =
                  RAdd(currentBalance, RMul(leg.tokens, leg.fillPrice)) ]_vars

\* C19: redeemPosition on a position credits the winning side's tokens at
\* $1, adds winTokens * (1 - winEntry) + loseTokens * (0 - loseEntry) to
\* realizedPnL, appends one record and deletes the position; without a
\* position it changes nothing.
C19_RedemptionSettles ==
  [][ last'.op = "redeemPosition" =>
         LET position == last'.position
             yesWins == last'.winningOutcome = 0
             winTokens == IF yesWins THEN position.yesTokens
                          ELSE position.noTokens
             winEntry == IF yesWins THEN position.yesEntryPrice
                         ELSE position.noEntryPrice
             loseTokens == IF yesWins THEN position.noTokens
                           ELSE position.yesTokens
             loseEntry == IF yesWins THEN position.noEntryPrice
                          ELSE position.yesEntryPrice
         IN  IF last'.found
             THEN /\ currentBalance' = RAdd(currentBalance, winTokens)
                  /\ realizedPnL' =
                       RAdd(realizedPnL,
                            RAdd(RMul(winTokens, RSub(One, winEntry)),
                                 RMul(loseTokens, RSub(Zero, loseEntry))))
                  /\ Len(tradeHistory') = Len(tradeHistory) + 1
                  /\ SubSeq(tradeHistory', 1, Len(tradeHistory)) = tradeHistory
                  /\ tradeHistory'[Len(tradeHistory')].marketId =
                       last'.marketId
                  /\ positions'[last'.marketId] = NoPosition
                  /\ \A m \in DOMAIN positions \ {last'.marketId} :
                        positions'[m] = positions[m]
             ELSE UNCHANGED <<now, markets, onUpdateCallbacks, config,
                              trackedMarkets, isRunning, scanInterval,
                              scanDebounceTimer, timeouts, inflight, closing,
                              currentBalance, positions, realizedPnL,
                              tradeHistory, snapshot, copyVars>> ]_vars

\* the redemption of yes 10 @ 0.4, no 5 @ 0.5 with YES the winner: proceeds
\* 10 on a balance of 993.5, realized PnL 3.5
C19_Witness ==
  /\ last.op = "redeemPosition" /\ last.found /\ last.winningOutcome = 0
  /\ last.position.yesTokens = Usd(10) /\ last.position.yesEntryPrice = P(400)
  /\ last.position.noTokens = Usd(5) /\ last.position.noEntryPrice = P(500)
  /\ currentBalance = Rat(2007, 2)
  /\ realizedPnL = Rat(7, 2)
  /\ positions["m1"] = NoPosition

---------------------------------------------------------------------------
(* The copy-trading service: the tracked users act, the service is started
   and stopped, its poll cycles run and overlap *)

Activity(hash, type, outcome, side, size, price) ==
  [transactionHash |-> hash, type |-> type, conditionId |-> "m1",
   outcome |-> outcome, side |-> side, size |-> size, price |-> price]

\* what the tracked users do: u1 buys YES and redeems, u2 buys NO
UserActivities ==
  [u \in CopyUsers |->
     IF u = "u1"
     THEN { Activity("h1", "TRADE", "Yes", "BUY", Usd(100), P(500)),
            Activity("h2", "REDEEM", "Yes", "BUY", Zero, Zero) }
     ELSE { Activity("h3", "TRADE", "No", "BUY", Usd(100), P(400)) }]

\* answers of the markets API: a failed request, an open market, a market
\* resolved YES
MarketDataResponses ==
  { NoValue,
    [closed |-> FALSE, outcomePrices |-> <<P(500), P(500)>>],
    [closed |-> TRUE, outcomePrices |-> <<One, Zero>>] }

NextCopy ==
  \/ CopyStart
  \/ CopyStop
  \/ PollTick
  \/ \E i \in 1..Len(cycles), ok \in BOOLEAN : FetchResponse(i, ok)
  \/ \E i \in 1..Len(cycles), marketData \in MarketDataResponses :
        MarketDataResponse(i, marketData)
  \/ \E i \in 1..Len(cycles) : SleepDone(i)
  \/ \E u \in CopyUsers : \E a \in UserActivities[u] : NewActivity(u, a)

SpecCopy == Init /\ [][NextCopy]_vars

\* C20: in the poll cycle that start() begins, every activity fetched is
\* in the seen set afterwards and none is handled: no DetectedTrade, no
\* order to the engine, no redemption.
C20_FirstPollIsSilent ==
  [][ (last'.op \in {"fetchUserTrades", "fetchMarketData"} /\ last'.first) =>
         /\ last'.fetched \subseteq copyTrading'.seenTransactionHashes
         /\ last'.handled = <<>>
         /\ last'.executed = <<>>
         /\ last'.redeemed = <<>>
         /\ copyTrading'.detectedTrades = copyTrading.detectedTrades
         /\ UNCHANGED <<currentBalance, positions, realizedPnL,
                        tradeHistory>> ]_vars

---------------------------------------------------------------------------
(* Restarts: the feeds hold the users' history before the service is ever
   started, and nothing new is posted afterwards *)

\* the history of the tracked users: u1 bought YES, u2 redeemed
HistoricalActivities ==
  [u \in CopyUsers |->
     IF u = "u1"
     THEN << Activity("h1", "TRADE", "Yes", "BUY", Usd(100), P(500)) >>
     ELSE << Activity("h2", "REDEEM", "Yes", "BUY", Zero, Zero) >>]

InitWatermark ==
  /\ now = 0
  /\ markets = <<>>
  /\ onUpdateCallbacks = <<"debouncedScan">>
  /\ config = DefaultConfig
  /\ trackedMarkets = {}
  /\ isRunning = FALSE
  /\ scanInterval = FALSE
  /\ scanDebounceTimer = NoTimer
  /\ timeouts = {}
  /\ inflight = <<>>
  /\ closing = <<>>
  /\ copyTrading = NewCopyTradingService
  /\ cycles = <<>>
  /\ activityFeed = HistoricalActivities
  /\ rateLimitRequests = <<>>
  /\ limiterCalls = <<>>
  /\ requests = <<>>
  /\ currentBalance = Usd(CAPITAL)
  /\ positions = [m \in MarketIds |-> NoPosition]
  /\ realizedPnL = Zero
  /\ tradeHistory = <<>>
  /\ snapshot = <<>>
  /\ last = [op |-> "init"]

NextWatermark ==
  \/ CopyStart
  \/ CopyStop
  \/ PollTick
  \/ \E i \in 1..Len(cycles), ok \in BOOLEAN : FetchResponse(i, ok)
  \/ \E i \in 1..Len(cycles), marketData \in MarketDataResponses :
        MarketDataResponse(i, marketData)
  \/ \E i \in 1..Len(cycles) : SleepDone(i)

SpecWatermark == InitWatermark /\ [][NextWatermark]_vars

\* C21: an activity that was in a tracked user's feed before start() is
\* never copy-executed: with feeds that hold only such activities, no poll
\* step hands an order to the engine or redeems, whatever the interleaving
\* of the cycles and whichever fetches fail.
C21_HistoryIsNeverExecuted ==
  last.op \in {"fetchUserTrades", "fetchMarketData"} =>
     /\ last.executed = <<>>
     /\ last.redeemed = <<>>
     /\ tradeHistory = <<>>

---------------------------------------------------------------------------
(* The per-user trade windows under polls and configuration updates *)

\* updateConfig(updates): this.config = {...this.config, ...updates}
CopyUpdateConfig(updates) ==
  /\ copyTrading' =
       [copyTrading EXCEPT !.config =
          [k \in DOMAIN @ |-> IF k \in DOMAIN updates THEN updates[k]
                              ELSE @[k]]]
  /\ last' = [op |-> "updateConfig", updates |-> updates]
  /\ UNCHANGED <<now, markets, onUpdateCallbacks, config, trackedMarkets,
                 isRunning, scanInterval, scanDebounceTimer, timeouts,
                 inflight, closing, currentBalance, positions, realizedPnL,
                 tradeHistory, snapshot, cycles, activityFeed,
                 limiterVars>>

\* what u1 does: three buys on one market
WindowActivities ==
  { Activity("h1", "TRADE", "Yes", "BUY", Usd(100), P(500)),
    Activity("h2", "TRADE", "Yes", "BUY", Usd(200), P(500)),
    Activity("h3", "TRADE", "No", "BUY", Usd(300), P(400)) }

\* POST /api/copy-trading/config: the window is made smaller
WindowUpdates ==
  { [recentTradesWindow |-> 1], [recentTradesWindow |-> 2] }

NextWindow ==
  \/ CopyStart
  \/ PollTick
  \/ \E i \in 1..Len(cycles), ok \in BOOLEAN : FetchResponse(i, ok)
  \/ \E i \in 1..Len(cycles) : SleepDone(i)
  \/ \E a \in WindowActivities : NewActivity("u1", a)
  \/ \E updates \in WindowUpdates : CopyUpdateConfig(updates)

SpecWindow == Init /\ [][NextWindow]_vars

\* the hashes a window holds
WindowHashes(window) == {window[i].hash : i \in 1..Len(window)}

\* C22: a poll that returns only trades whose hashes are already in the
\* user's window leaves the window as it is: same size, same eviction
\* order, same sizes and therefore the same volume.
C22_ReinsertKeepsWindow ==
  [][ ( /\ last'.op = "fetchUserTrades"
        /\ last'.ok
        /\ \A k \in 1..Len(activityFeed[last'.user]) :
              activityFeed[last'.user][k].type = "TRADE" =>
                 activityFeed[last'.user][k].transactionHash \in
                    WindowHashes(copyTrading.userTradeHistory[last'.user]) )
      => copyTrading'.userTradeHistory[last'.user] =
            copyTrading.userTradeHistory[last'.user] ]_vars

\* C23: every user's trade window holds at most recentTradesWindow
\* entries, and a new hash set into a window of exactly that many entries
\* removes the earliest-inserted entry and nothing else.
C23_WindowBounded ==
  \A u \in CopyUsers :
     LET window == copyTrading.userTradeHistory[u]
         W == copyTrading.config.recentTradesWindow
     IN  /\ Len(window) <= W
         /\ Len(window) = W =>
              \A a \in WindowActivities :
                 a.transactionHash \notin WindowHashes(window) =>
                    SetTradeSize(window, a.transactionHash, a.size, W) =
                       Append(Tail(window),
                              [hash |-> a.transactionHash, size |-> a.size])

---------------------------------------------------------------------------
(* Proportional sizing: calculateProportionalSize on windows and
   configurations of every shape *)

\* windows of a user: none yet, one trade, small volume, large volume
SizeWindows ==
  { <<>>,
    << [hash |-> "h1", size |-> Usd(100)] >>,
    << [hash |-> "h1", size |-> Usd(100)], [hash |-> "h2", size |-> Usd(200)] >>,
    << [hash |-> "h1", size |-> Usd(600)], [hash |-> "h2", size |-> Usd(900)] >>,
    << [hash |-> "h1", size |-> Usd(100)], [hash |-> "h2", size |-> Usd(2000)],
       [hash |-> "h3", size |-> Usd(3000)] >> }

\* sizes of the source trade
SizeTrades == {Usd(100), Usd(600), Usd(5000)}

\* the hash of the source trade: in the window or not
SizeHashes == {"h1", "h9"}

\* minTradeSize, maxTradeSize and minVolumeForScaling as updateConfig may
\* leave them
SizeConfigs ==
  { [NewCopyTradingService.config EXCEPT !.minTradeSize = Usd(lo),
                                         !.maxTradeSize = Usd(hi),
                                         !.minVolumeForScaling = Usd(vol)] :
      lo \in {0, 10, 50}, hi \in {5, 50, 1000}, vol \in {0, 500, 1000} }

SizeCall(tradeSize, tradeHash, window, cfg) ==
  /\ last' = [op |-> "calculateProportionalSize", tradeSize |-> tradeSize,
              tradeHash |-> tradeHash, window |-> window, config |-> cfg,
              copySize |-> calculateProportionalSize(tradeSize, tradeHash,
                                                     window, cfg)]
  /\ UNCHANGED <<now, markets, onUpdateCallbacks, config, trackedMarkets,
                 isRunning, scanInterval, scanDebounceTimer, timeouts,
                 inflight, closing, currentBalance, positions, realizedPnL,
                 tradeHistory, snapshot, copyVars>>

NextSize ==
  \E tradeSize \in SizeTrades, tradeHash \in SizeHashes,
     window \in SizeWindows, cfg \in SizeConfigs :
       SizeCall(tradeSize, tradeHash, window, cfg)

SpecSize == Init /\ [][NextSize]_vars

\* lo <= x <= hi
InRange(x, lo, hi) == RLe(lo, x) /\ RLe(x, hi)

\* C24: the copy size is max(minTradeSize, 0.10 maxTradeSize) for a window
\* of fewer than 2 entries; else, with V the window's volume without the
\* trade's own hash, max(minTradeSize, 0.05 maxTradeSize) when
\* V < minVolumeForScaling and maxTradeSize * S / V clamped to
\* [minTradeSize, maxTradeSize] otherwise; with minTradeSize <=
\* maxTradeSize it lies in [minTradeSize, maxTradeSize].
C24_ProportionalSize ==
  last.op = "calculateProportionalSize" =>
    LET cfg == last.config
        S == last.tradeSize
        V == RecentVolume(last.window, last.tradeHash)
        expected ==
          IF Len(last.window) < 2
          THEN RMax(cfg.minTradeSize, RMul(P(100), cfg.maxTradeSize))
          ELSE IF RLt(V, cfg.minVolumeForScaling)
          THEN RMax(cfg.minTradeSize, RMul(P(50), cfg.maxTradeSize))
          ELSE RMin(RMax(cfg.minTradeSize,
                         RDiv(RMul(cfg.maxTradeSize, S), V)),
                    cfg.maxTradeSize)
    IN  /\ last.copySize = expected
        /\ RLe(cfg.minTradeSize, cfg.maxTradeSize) =>
              InRange(last.copySize, cfg.minTradeSize, cfg.maxTradeSize)

---------------------------------------------------------------------------
(* Copy SELLs: one tracked user buys and sells while the feed moves the
   market's prices *)

\* new CopyTradingService(executionEngine, [u1])
InitOneUser ==
  /\ now = 0
  /\ markets = <<>>
  /\ onUpdateCallbacks = <<"debouncedScan">>
  /\ config = DefaultConfig
  /\ trackedMarkets = {}
  /\ isRunning = FALSE
  /\ scanInterval = FALSE
  /\ scanDebounceTimer = NoTimer
  /\ timeouts = {}
  /\ inflight = <<>>
  /\ closing = <<>>
  /\ copyTrading = [NewCopyTradingService EXCEPT
                      !.config.trackedUsers = <<"u1">>]
  /\ cycles = <<>>
  /\ activityFeed = [u \in CopyUsers |-> <<>>]
  /\ rateLimitRequests = <<>>
  /\ limiterCalls = <<>>
  /\ requests = <<>>
  /\ currentBalance = Usd(CAPITAL)
  /\ positions = [m \in MarketIds |-> NoPosition]
  /\ realizedPnL = Zero
  /\ tradeHistory = <<>>
  /\ snapshot = <<>>
  /\ last = [op |-> "init"]

\* what u1 does: a buy of YES, a sell the copied position covers (copy size
\* 50 at 0.5: 100 tokens) and one it does not (50 at 0.1: 500 tokens)
SellActivities ==
  { Activity("h1", "TRADE", "Yes", "BUY", Usd(100), P(500)),
    Activity("h2", "TRADE", "Yes", "SELL", Usd(100), P(500)),
    Activity("h3", "TRADE", "Yes", "SELL", Usd(100), P(100)) }

\* the feed's YES book of m1
SellBooks == {Book(P(400), P(600))}

NextSell ==
  \/ CopyStart
  \/ PollTick
  \/ \E i \in 1..Len(cycles) : FetchResponse(i, TRUE)
  \/ \E i \in 1..Len(cycles) : SleepDone(i)
  \/ \E a \in SellActivities : NewActivity("u1", a)
  \/ \E u \in FeedUpdates({"m1"}, SellBooks, {}, {now}) :
        UpdateOrderBook(u, {})

SpecSell == InitOneUser /\ [][NextSell]_vars

\* the activity of u1 with a hash
ActivityOf(hash) ==
  CHOOSE a \in SellActivities : a.transactionHash = hash

\* a poll step that handled the copy of one SELL and nothing else
HandledOneSell(l) ==
  /\ l.op = "fetchUserTrades"
  /\ Len(l.handled) = 1
  /\ ActivityOf(l.handled[1]).side = "SELL"

\* the position covers the copy of a SELL: it exists and holds at least
\* copySize / price tokens of the traded outcome
Covered(pos, trade, copySize) ==
  /\ pos[trade.conditionId] # NoPosition
  /\ RLe(RDiv(copySize, trade.price), pos[trade.conditionId].yesTokens)

\* the copy size of a trade once the poll has updated the window
CopySizeOf(trade, copy) ==
  calculateProportionalSize(trade.size, trade.transactionHash,
                            copy.userTradeHistory["u1"], copy.config)

\* what a position holds: tokens, entry prices and entry cost
Holdings(pos) ==
  [m \in MarketIds |->
     IF pos[m] = NoPosition THEN NoPosition
     ELSE [yesTokens |-> pos[m].yesTokens, noTokens |-> pos[m].noTokens,
           yesEntryPrice |-> pos[m].yesEntryPrice,
           noEntryPrice |-> pos[m].noEntryPrice,
           totalEntryCost |-> pos[m].totalEntryCost]]

\* C25 as stated: a copy SELL goes to the engine only when the position
\* covers it; otherwise the DetectedTrade gets an executionError, executed
\* stays false, and the balance and all positions are unchanged.
C25_RefusedSellChangesNothing ==
  [][ HandledOneSell(last') =>
        LET trade == ActivityOf(last'.handled[1])
            covered == Covered(positions, trade,
                               CopySizeOf(trade, copyTrading'))
            detected == copyTrading'.detectedTrades[
                           Len(copyTrading'.detectedTrades)]
        IN  /\ last'.executed # <<>> => covered
            /\ ~covered =>
                 /\ detected.transactionHash = trade.transactionHash
                 /\ detected.executionError # "undefined"
                 /\ ~detected.executed
                 /\ currentBalance' = currentBalance
                 /\ positions' = positions ]_vars

\* C25, amended: a refused copy SELL leaves the balance, the trade history
\* and every position's tokens, entry prices and entry cost unchanged; the
\* read of an existing position refreshes its current prices and
\* unrealizedPnL from the store.
C25_RefusedSellKeepsHoldings ==
  [][ HandledOneSell(last') =>
        LET trade == ActivityOf(last'.handled[1])
            covered == Covered(positions, trade,
                               CopySizeOf(trade, copyTrading'))
            detected == copyTrading'.detectedTrades[
                           Len(copyTrading'.detectedTrades)]
        IN  /\ last'.executed # <<>> => covered
            /\ ~covered =>
                 /\ Len(copyTrading'.detectedTrades) =
                       Len(copyTrading.detectedTrades) + 1
                 /\ detected.transactionHash = trade.transactionHash
                 /\ detected.executionError # "undefined"
                 /\ ~detected.executed
                 /\ last'.executed = <<>>
                 /\ UNCHANGED <<currentBalance, tradeHistory, realizedPnL>>
                 /\ Holdings(positions') = Holdings(positions)
                 /\ \A m \in MarketIds \ {trade.conditionId} :
                       positions'[m] = positions[m] ]_vars

\* a SELL the position does not cover was refused, and the read refreshed
\* the position's current price
C25_Witness ==
  /\ HandledOneSell(last)
  /\ last.handled = <<"h3">>
  /\ last.executed = <<>>
  /\ positions["m1"] # NoPosition
  /\ positions["m1"].yesTokens = Usd(200)
  /\ positions["m1"].yesCurrentPrice = P(600)
  /\ copyTrading.detectedTrades[Len(copyTrading.detectedTrades)]
        .executionError = "Insufficient tokens to sell"
  /\ currentBalance = Usd(900)

---------------------------------------------------------------------------
(* The rate limiter of the copy service, on its own: callers pass through
   waitForRateLimit and fetchWithRateLimit while the clock runs.  The
   budget of 200 requests per 10000 ms is scaled to 2 requests per 2 ticks
   of the clock; the 100 ms added to a wait is below the clock's
   resolution.  The poll cycles of the other specifications run below the
   budget. *)

RATE_LIMIT_REQUESTS == 2
RATE_LIMIT_WINDOW_MS == 2

\* a limiter that drops the old timestamps but lets every caller through
waitForRateLimitUnlimited(tracked, t) ==
  [rateLimitRequests |->
      SelectSeq(tracked, LAMBDA ts : t - ts < RATE_LIMIT_WINDOW_MS),
   waits |-> FALSE, oldestRequest |-> 0]

\* waitForRateLimit() up to its sleep: the timestamps inside the window
\* are kept; at the limit the caller waits for the oldest of them
waitForRateLimit(tracked, t) ==
  LET kept == SelectSeq(tracked, LAMBDA ts : t - ts < RATE_LIMIT_WINDOW_MS)
  IN  IF Len(kept) >= RATE_LIMIT_REQUESTS
      THEN [rateLimitRequests |-> kept, waits |-> TRUE,
            oldestRequest |-> kept[1]]
      ELSE [rateLimitRequests |-> kept, waits |-> FALSE, oldestRequest |-> 0]

\* a caller at the limiter: asleep until the oldest request leaves the
\* window, or through, and then the request of a fetchWithRateLimit caller
\* is tracked and handed to fetch()
PassLimiter(calls, fetch, waited) ==
  \E w \in {waitForRateLimit(rateLimitRequests, now)} :
     IF w.waits
     THEN /\ rateLimitRequests' = w.rateLimitRequests
          /\ limiterCalls' =
               Append(calls, [fetch |-> fetch,
                              oldestRequest |-> w.oldestRequest,
                              until |-> w.oldestRequest
                                          + RATE_LIMIT_WINDOW_MS])
          /\ requests' = requests
          /\ last' = [op |-> "waitForRateLimit", fetch |-> fetch,
                      issued |-> FALSE, waited |-> waited]
     ELSE /\ rateLimitRequests' =
               IF fetch THEN Append(w.rateLimitRequests, now)
               ELSE w.rateLimitRequests
          /\ limiterCalls' = calls
          /\ requests' = IF fetch THEN Append(requests, now) ELSE requests
          /\ last' = [op |-> "waitForRateLimit", fetch |-> fetch,
                      issued |-> fetch, waited |-> waited]

\* fetchWithRateLimit(url) (fetch) or pollForTrades' own waitForRateLimit()
LimiterCall(fetch) ==
  /\ Len(limiterCalls) < MaxCycles
  /\ PassLimiter(limiterCalls, fetch, <<>>)
  /\ UNCHANGED <<now, markets, onUpdateCallbacks, config, trackedMarkets,
                 isRunning, scanInterval, scanDebounceTimer, timeouts,
                 inflight, closing, currentBalance, positions, realizedPnL,
                 tradeHistory, snapshot, copyTrading, cycles, activityFeed>>

\* the sleep of a waiting caller ends: waitForRateLimit() runs again
LimiterWake(i) ==
  /\ now >= limiterCalls[i].until
  /\ PassLimiter(RemoveAt(limiterCalls, i), limiterCalls[i].fetch,
                 <<limiterCalls[i].oldestRequest>>)
  /\ UNCHANGED <<now, markets, onUpdateCallbacks, config, trackedMarkets,
                 isRunning, scanInterval, scanDebounceTimer, timeouts,
                 inflight, closing, currentBalance, positions, realizedPnL,
                 tradeHistory, snapshot, copyTrading, cycles, activityFeed>>

NextLimiter ==
  \/ Tick
  \/ \E fetch \in BOOLEAN : LimiterCall(fetch)
  \/ \E i \in 1..Len(limiterCalls) : LimiterWake(i)

SpecLimiter == Init /\ [][NextLimiter]_vars

\* the requests handed to fetch() in the window that starts at t
RequestsIn(t) ==
  {i \in 1..Len(requests) :
      t <= requests[i] /\ requests[i] < t + RATE_LIMIT_WINDOW_MS}

\* C26: every window of RATE_LIMIT_WINDOW_MS holds at most
\* RATE_LIMIT_REQUESTS requests, however many callers are at the limiter;
\* a caller that found the budget used up hands its request to fetch()
\* only when the oldest request it saw tracked has left the window.
C26_RateLimit ==
  [][ /\ \A t \in 0..MaxTime :
            Cardinality(RequestsIn(t)') <= RATE_LIMIT_REQUESTS
      /\ (last'.op = "waitForRateLimit" /\ last'.issued
          /\ last'.waited # <<>>)
           => now - last'.waited[1] >= RATE_LIMIT_WINDOW_MS ]_vars

\* two callers waited at the same time for the budget of the first window;
\* one has issued its request in the next window, the other still waits
C26_Witness ==
  /\ last.op = "waitForRateLimit" /\ last.issued /\ last.waited = <<0>>
  /\ requests = <<0, 0, 2>>
  /\ Len(limiterCalls) = 1
  /\ limiterCalls[1].fetch

---------------------------------------------------------------------------
(* Redemptions: one tracked user buys and redeems, the markets API answers
   in every way, poll cycles overlap and the clock runs *)

\* what u1 does: a buy of YES and two redemptions on the same market
RedeemActivities ==
  { Activity("h1", "TRADE", "Yes", "BUY", Usd(100), P(500)),
    Activity("h2", "REDEEM", "Yes", "BUY", Zero, Zero),
    Activity("h3", "REDEEM", "Yes", "BUY", Zero, Zero) }

\* answers of the markets API: a failed request, an open market, a market
\* resolved YES, resolved NO, and a closed one without a clear winner
RedeemResponses ==
  { NoValue,
    [closed |-> FALSE, outcomePrices |-> <<P(500), P(500)>>],
    [closed |-> TRUE, outcomePrices |-> <<One, Zero>>],
    [closed |-> TRUE, outcomePrices |-> <<Zero, One>>],
    [closed |-> TRUE, outcomePrices |-> <<P(950), P(200)>>] }

NextRedeem ==
  \/ Tick
  \/ CopyStart
  \/ PollTick
  \/ \E i \in 1..Len(cycles) : FetchResponse(i, TRUE)
  \/ \E i \in 1..Len(cycles), marketData \in RedeemResponses :
        MarketDataResponse(i, marketData)
  \/ \E i \in 1..Len(cycles) : SleepDone(i)
  \/ \E a \in RedeemActivities : NewActivity("u1", a)

SpecRedeem == InitOneUser /\ [][NextRedeem]_vars

\* a poll step in which the copy service called the engine's redeemPosition
Redeeming(l) ==
  /\ l.op \in {"fetchUserTrades", "fetchMarketData"}
  /\ l.redeemed # <<>>

\* the market data behind a call of redeemPosition is fetched in the step
\* or cached for less than the TTL, says closed, and its price pair names
\* the winner that is passed on
ResolutionConfirmed(cache, winners, t) ==
  /\ cache # NoValue
  /\ t - cache.timestamp < MARKET_CACHE_TTL_MS
  /\ cache.data.closed
  /\ Len(cache.data.outcomePrices) = 2
  /\ \A k \in 1..Len(winners) :
        LET p0 == cache.data.outcomePrices[1]
            p1 == cache.data.outcomePrices[2]
        IN  /\ winners[k] \in {0, 1}
            /\ winners[k] = 0 <=> (RLt(P(900), p0) /\ RLt(p1, P(100)))
            /\ winners[k] = 1 <=> (RLt(P(900), p1) /\ RLt(p0, P(100)))

\* C27 as stated: the engine's redeemPosition is invoked only while a
\* position exists for the market, on market data that is closed and
\* names a winner by the 0.9 / 0.1 rule.
C27_RedeemOnlyWithPosition ==
  [][ Redeeming(last') =>
        /\ ResolutionConfirmed(copyTrading'.marketDataCache["m1"],
                               last'.winners, now)
        /\ last'.op = "fetchMarketData" => positions["m1"] # NoPosition
     ]_vars

\* C27, amended: the engine's redeemPosition is invoked only if a position
\* existed for the market when handleRedemption read it (by the time the
\* market data arrives another cycle may have redeemed it), on market data
\* that is closed and names a winner by the 0.9 / 0.1 rule.
C27_RedeemOnlyResolved ==
  [][ Redeeming(last') =>
        /\ ResolutionConfirmed(copyTrading'.marketDataCache["m1"],
                               last'.winners, now)
        /\ last'.op = "fetchMarketData" =>
              last'.existingPosition # NoPosition ]_vars

\* the market data arrived closed with NO the winner and the position was
\* redeemed at 0: the 200 YES tokens bought for 100 are lost
C27_Witness ==
  /\ Redeeming(last)
  /\ last.op = "fetchMarketData"
  /\ last.winners = <<1>>
  /\ last.existingPosition # NoPosition
  /\ positions["m1"] = NoPosition
  /\ currentBalance = Usd(900)
  /\ realizedPnL = Rat(0 - 100, 1)

\* the elements of a sequence
Range(seq) == {seq[i] : i \in 1..Len(seq)}

\* the hashes of the REDEEM activities whose handling waits for market data
Awaited(cs) ==
  {cs[i].awaiting.transactionHash :
     i \in {j \in 1..Len(cs) : cs[j].pc = "marketData"}}

\* C28: a hash stays in the seen set for good; a poll handles only hashes
\* it had not seen, starts a redemption only for a hash it has just marked
\* seen and redeems only for such a hash or one whose market data it was
\* waiting for: a REDEEM activity whose handling was skipped is never taken
\* up again, and the position stays open until another redemption.
C28_SkippedRedeemIsNotRetried ==
  [][ /\ copyTrading.seenTransactionHashes \subseteq
            copyTrading'.seenTransactionHashes
      /\ Awaited(cycles') \subseteq copyTrading'.seenTransactionHashes
      /\ last'.op \in {"fetchUserTrades", "fetchMarketData"} =>
           /\ Range(last'.handled) \cap copyTrading.seenTransactionHashes = {}
           /\ Awaited(cycles') \ Awaited(cycles) \subseteq Range(last'.handled)
           /\ Range(last'.redeemed) \subseteq
                 Awaited(cycles) \cup Range(last'.handled)
      /\ (positions["m1"] # NoPosition /\ positions'["m1"] = NoPosition) =>
            Redeeming(last')
      /\ last'.op \notin {"fetchUserTrades", "fetchMarketData"} =>
            Awaited(cycles') = Awaited(cycles) ]_vars

\* the redemption for h2 was given up on market data without a clear
\* winner; a later poll has fetched h2 again and left it alone, and the
\* position is still open
C28_Witness ==
  /\ last.op = "fetchUserTrades"
  /\ ~last.first
  /\ "h2" \in last.fetched
  /\ last.handled = <<>>
  /\ Awaited(cycles) = {}
  /\ "h2" \in copyTrading.seenTransactionHashes
  /\ "h3" \notin copyTrading.seenTransactionHashes
  /\ copyTrading.marketDataCache["m1"] # NoValue
  /\ copyTrading.marketDataCache["m1"].data.closed
  /\ determineWinningOutcome(copyTrading.marketDataCache["m1"].data)
        = Indeterminate
  /\ positions["m1"] # NoPosition
  /\ now - copyTrading.marketDataCache["m1"].timestamp >= MARKET_CACHE_TTL_MS

---------------------------------------------------------------------------
(* Claims on the DetectedTrade records *)

\* two tracked users, polled by overlapping cycles of a running service
NextOnce ==
  \/ CopyStart
  \/ PollTick
  \/ \E i \in 1..Len(cycles) : FetchResponse(i, TRUE)
  \/ \E i \in 1..Len(cycles), marketData \in MarketDataResponses :
        MarketDataResponse(i, marketData)
  \/ \E i \in 1..Len(cycles) : SleepDone(i)
  \/ \E u \in CopyUsers : \E a \in UserActivities[u] : NewActivity(u, a)

SpecOnce == Init /\ [][NextOnce]_vars

\* the DetectedTrade records of a hash
DetectedFor(copy, hash) ==
  {i \in 1..Len(copy.detectedTrades) :
      copy.detectedTrades[i].transactionHash = hash}

C30_OncePerHash ==
  [][ /\ \A i \in 1..Len(copyTrading'.detectedTrades) :
            Cardinality(DetectedFor(copyTrading',
               copyTrading'.detectedTrades[i].transactionHash)) = 1
      /\ last'.op \in {"fetchUserTrades", "fetchMarketData"} =>
           /\ Range(last'.executed) \cap copyTrading.seenTransactionHashes = {}
           /\ Range(last'.executed) \subseteq
                 copyTrading'.seenTransactionHashes
           /\ Cardinality(Range(last'.executed)) = Len(last'.executed)
           /\ \A h \in Range(last'.executed) :
                 /\ DetectedFor(copyTrading, h) = {}
                 /\ Cardinality(DetectedFor(copyTrading', h)) = 1
      /\ copyTrading.seenTransactionHashes \subseteq
            copyTrading'.seenTransactionHashes ]_vars

\* a cycle waits for the market data of a redemption with the trade h1
\* still ahead of it; the next cycle has fetched both again, left the
\* redemption alone and copied h1
C30_Witness ==
  /\ last.op = "fetchUserTrades"
  /\ last.executed = <<"h1">>
  /\ Cardinality(DetectedFor(copyTrading, "h1")) = 1
  /\ \E i \in 1..Len(cycles) :
        /\ cycles[i].pc = "marketData"
        /\ "h1" \in Hashes(cycles[i].rest)
        /\ cycles[i].awaiting.transactionHash \in last.fetched

---------------------------------------------------------------------------
(* Failures inside a poll cycle *)

\* C31: a failed fetch or a failed copy execution for one user does not
\* stop the poll cycle or the service: a step of fetchUserTrades or of a
\* redemption leaves every cycle in place at its user, the service running
\* and its interval armed; a cycle moves on one user at a time and ends
\* only after the last tracked user; no other step touches a cycle.
C31_FailureKeepsCycle ==
  [][ LET users == copyTrading.config.trackedUsers
          same == /\ Len(cycles') >= Len(cycles)
                  /\ \A i \in 1..Len(cycles) : cycles'[i] = cycles[i]
      IN  IF last'.op \in {"fetchUserTrades", "fetchMarketData"}
          THEN /\ Len(cycles') = Len(cycles)
               /\ \A i \in 1..Len(cycles) :
                     /\ cycles'[i].index = cycles[i].index
                     /\ cycles'[i].user = cycles[i].user
                     /\ cycles'[i].pc \in {cycles[i].pc, "sleep",
                                            "marketData"}
               /\ copyTrading'.isRunning = copyTrading.isRunning
               /\ copyTrading'.pollInterval = copyTrading.pollInterval
               /\ copyTrading'.config = copyTrading.config
          ELSE IF last'.op = "sleepDone"
          THEN \E i \in 1..Len(cycles) :
                 IF last'.finished
                 THEN /\ cycles[i].index = Len(users)
                      /\ cycles' = RemoveAt(cycles, i)
                 ELSE /\ cycles[i].index < Len(users)
                      /\ cycles' = [cycles EXCEPT
                                      ![i] = [cycles[i] EXCEPT
                                                !.index = @ + 1,
                                                !.user = users[cycles[i].index + 1],
                                                !.pc = "fetch"]]
          ELSE same ]_vars

\* the first user's fetch has failed in every cycle so far (the hash in
\* its feed was never seen), and the cycle start() began has just fetched
\* the second user's activities
C31_Witness ==
  /\ last.op = "fetchUserTrades"
  /\ last.first
  /\ last.user = "u2"
  /\ last.ok
  /\ last.fetched = {"h2"}
  /\ "h1" \notin copyTrading.seenTransactionHashes
  /\ "h2" \in copyTrading.seenTransactionHashes
  /\ copyTrading.isRunning

---------------------------------------------------------------------------
(* Both services started and stopped, their timers firing *)

\* one market whose asks sum to more than 1: its updates reach the
\* callbacks, no scan finds an opportunity
StopFeed ==
  FeedUpdates({"m1"}, {Book(Null, P(450))}, {Book(Null, P(600))}, {now})

NextStop ==
  \/ \E u \in StopFeed : UpdateOrderBook(u, {})
  \/ Start
  \/ Stop
  \/ FallbackScan
  \/ \E x \in timeouts : TimeoutElapses(x.id)
  \/ \E x \in timeouts : DebounceScan(x.id)
  \/ CopyStart
  \/ CopyStop
  \/ PollTick
  \/ \E i \in 1..Len(cycles), ok \in BOOLEAN : FetchResponse(i, ok)
  \/ \E i \in 1..Len(cycles) : SleepDone(i)

SpecStop == InitOneUser /\ [][NextStop]_vars

\* C32: while a service is stopped none of its timers is armed and none
\* of its cycles begins: for the arbitrage service no fallback interval, no
\* pending debounce timeout and no scan that gets past its enabled check;
\* for the copy-trading service no poll interval and no new poll cycle.
\* Poll cycles already in flight go on.
C32_StoppedIsQuiet ==
  [][ /\ ~isRunning' =>
           /\ ~scanInterval'
           /\ timeouts' = {}
           /\ scanDebounceTimer' = NoTimer
      /\ (~isRunning /\ ~isRunning') =>
           (last'.op \in ScanOps => last'.outcome = "disabled")
      /\ ~copyTrading'.isRunning => ~copyTrading'.pollInterval
      /\ (~copyTrading.isRunning /\ ~copyTrading'.isRunning) =>
           /\ Len(cycles') <= Len(cycles)
           /\ last'.op # "pollTick" ]_vars

\* the arbitrage service was stopped with a debounce timeout pending, the
\* copy-trading service is stopped too and one of its poll cycles is still
\* in flight
C32_Witness ==
  /\ last.op = "stop"
  /\ last.pendingBefore = 1
  /\ ~isRunning
  /\ ~copyTrading.isRunning
  /\ copyTrading.config.enabled = FALSE
  /\ cycles # <<>>

---------------------------------------------------------------------------
(* The engine's books *)

\* the sum of totalEntryCost over the open positions among ids
RECURSIVE SumEntryCost(_, _)
SumEntryCost(pos, ids) ==
  IF ids = {} THEN Zero
  ELSE LET m == CHOOSE x \in ids : TRUE
       IN  RAdd(IF pos[m] = NoPosition THEN Zero ELSE pos[m].totalEntryCost,
                SumEntryCost(pos, ids \ {m}))

\* C33: cash plus cost basis equals starting capital plus realized profit:
\* currentBalance + sum of totalEntryCost over the open positions
\* = startingCapital + realizedPnL, in every state.
C33_CashPlusCostBasis ==
  RAdd(currentBalance, SumEntryCost(positions, MarketIds))
    = RAdd(Usd(CAPITAL), realizedPnL)

\* every source of orders at once: the feed, the orders of the trade API
\* and of copy trades, the arbitrage service, closes and redemptions
BooksFeed ==
  FeedUpdates({"m1"}, {Book(P(400), P(450))}, {Book(P(400), P(500))}, {now})

\* orders of the trade API or of copy trades: a buy that takes most of the
\* balance and a sell of 1200 YES tokens
BooksOrders ==
  { Order("m1", "YES", "BUY", Usd(950), P(500)),
    Order("m1", "YES", "SELL", Usd(600), P(500)) }

NextBooks ==
  \/ \E u \in BooksFeed : UpdateOrderBook(u, {})
  \/ \E order \in BooksOrders : ExecuteTrade(order)
  \/ Start
  \/ FallbackScan
  \/ \E i \in 1..MaxInFlight : ArbNoLeg(i)
  \/ \E i \in 1..MaxInFlight : ArbFinish(i)
  \/ ClosePosition("m1")
  \/ \E i \in 1..Len(closing) : CloseResume(i)
  \/ \E w \in {0, 1} : RedeemPosition("m1", w)

SpecBooks == Init /\ [][NextBooks]_vars

\* C34: the balance is never negative and no position holds a negative
\* number of tokens, whatever the interleaving of arbitrage legs, copy
\* trades, orders of the trade API, closes and redemptions.
C34_NothingNegative ==
  /\ RLe(Zero, currentBalance)
  /\ \A m \in MarketIds :
        positions[m] # NoPosition =>
           /\ RLe(Zero, positions[m].yesTokens)
           /\ RLe(Zero, positions[m].noTokens)

\* a SELL of more YES tokens than the position held was filled: the tokens
\* are floored at 0
C34_Witness ==
  /\ last.op = "executeTrade"
  /\ last.order.action = "SELL"
  /\ last.status = "filled"
  /\ Len(tradeHistory) = 2
  /\ tradeHistory[1].action = "BUY"
  /\ tradeHistory[1].side = "YES"
  /\ RLt(RDiv(tradeHistory[1].size, tradeHistory[1].price),
         RDiv(last.order.size, last.order.price))
  /\ positions["m1"].yesTokens = Zero

\* C35: every position in the ledger holds a positive token balance on at
\* least one outcome: no position is created with zero tokens on both sides
\* and a position sold down to 0 on both sides is gone from the ledger.
C35_PositionsHoldTokens ==
  \A m \in MarketIds :
     positions[m] # NoPosition =>
        \/ RLt(Zero, positions[m].yesTokens)
        \/ RLt(Zero, positions[m].noTokens)

---------------------------------------------------------------------------
(* Two markets with an arbitrage, the better one blocked by a position *)

\* m1 offers 0.10 a pair, m2 0.05: every scan ranks m1 first
StarveFeed ==
  FeedUpdates({"m1"}, {Book(Null, P(400))}, {Book(Null, P(500))}, {now})
  \cup FeedUpdates({"m2"}, {Book(Null, P(450))}, {Book(Null, P(500))}, {now})

\* a single YES leg in m1, placed through the trade API or by a copy trade
SingleLegOrder == Order("m1", "YES", "BUY", Usd(10), P(400))

NextStarve ==
  \/ \E u \in StarveFeed : UpdateOrderBook(u, {})
  \/ ExecuteTrade(SingleLegOrder)
  \/ Start
  \/ FallbackScan
  \/ \E x \in timeouts : TimeoutElapses(x.id)
  \/ \E x \in timeouts : DebounceScan(x.id)
  \/ \E i \in 1..MaxInFlight : ArbNoLeg(i)
  \/ \E i \in 1..MaxInFlight : ArbFinish(i)

\* the fallback interval keeps firing and a call suspended at an await
\* resumes
SpecStarve ==
  /\ Init /\ [][NextStarve]_vars
  /\ WF_vars(FallbackScan)
  /\ WF_vars(\E i \in 1..MaxInFlight : ArbNoLeg(i))
  /\ WF_vars(\E i \in 1..MaxInFlight : ArbFinish(i))

\* the service runs, market id is among the opportunities a scan returns
\* now (not stale, not tracked, profitable), its plan exists, the balance
\* covers it and the engine takes its two legs
ReadyToEnter(id) ==
  LET opportunities ==
        scanOpportunities(markets, trackedMarkets, config, now)
  IN  /\ isRunning
      /\ config.enabled
      /\ scanInterval
      /\ CanScan
      /\ \E i \in 1..Len(opportunities) :
            /\ opportunities[i].marketId = id
            /\ LET plan == createExecutionPlan(opportunities[i], markets,
                                               config, now)
               IN  /\ plan # NoValue
                   /\ RLe(plan.totalCost, currentBalance)

\* C36: a market without a position that stays ready to be entered is
\* entered in the end: it does not stay ready and without a position for
\* ever, also when a better-ranked market is returned first by every scan
\* and its execution aborts.
C36_LowerRankedIsEntered ==
  ~<>[](ReadyToEnter("m2") /\ positions["m2"] = NoPosition)

---------------------------------------------------------------------------
(* Scans that overlap: a scan begins while executeArbitrage is between its
   two legs *)

OverlapFeed ==
  FeedUpdates({"m1", "m2"}, {Book(Null, P(450))}, {Book(Null, P(500))},
              {now})

NextOverlap ==
  \/ \E u \in OverlapFeed : UpdateOrderBook(u, {})
  \/ Start
  \/ Stop
  \/ FallbackScan
  \/ OverlappingFallbackScan
  \/ \E x \in timeouts : TimeoutElapses(x.id)
  \/ \E x \in timeouts : DebounceScan(x.id)
  \/ \E x \in timeouts : OverlappingDebounceScan(x.id)
  \/ \E i \in 1..(MaxInFlight + 1) : ArbNoLeg(i)
  \/ \E i \in 1..(MaxInFlight + 1) : ArbFinish(i)

SpecOverlap == Init /\ [][NextOverlap]_vars

\* the executeArbitrage calls in flight for a market
CallsFor(m) ==
  {i \in 1..Len(inflight) : inflight[i].plan.marketId = m}

\* C37: arbitrage submits its YES leg only for a market without a
\* position, and at most one executeArbitrage call is in flight for a
\* market; so a market has at most one filled YES leg and one filled NO leg
\* of arbitrage while its position exists, however the scans interleave.
C37_OneEntryPerPosition ==
  [][ /\ (last'.op \in ScanOps /\ last'.outcome = "submitted") =>
           positions[last'.attempted[1]] = NoPosition
      /\ \A m \in MarketIds :
           /\ Cardinality(CallsFor(m)') <= 1
           /\ Len(RecordsOf(tradeHistory', m, "YES", "BUY")) <= 1
           /\ Len(RecordsOf(tradeHistory', m, "NO", "BUY")) <= 1 ]_vars

\* a scan ran while executeArbitrage was between the two legs of its entry
\* into the same market, and stopped at the position the YES leg had made
C37_Witness ==
  /\ last.op \in ScanOps
  /\ last.outcome = "hasPosition"
  /\ Len(inflight) = 1
  /\ inflight[1].pc = "noLeg"
  /\ last.attempted = <<inflight[1].plan.marketId>>

---------------------------------------------------------------------------
(* Users whose first fetch comes after the initial poll *)

\* what the users have done: each one a buy
AddActivities ==
  [u \in CopyUsers |->
     IF u = "u1"
     THEN { Activity("h1", "TRADE", "Yes", "BUY", Usd(100), P(500)) }
     ELSE { Activity("h2", "TRADE", "No", "BUY", Usd(100), P(400)) }]

\* u1 is tracked from the start, u2 is added through the API
NextAdd ==
  \/ CopyStart
  \/ PollTick
  \/ \E i \in 1..Len(cycles), ok \in BOOLEAN : FetchResponse(i, ok)
  \/ \E i \in 1..Len(cycles) : SleepDone(i)
  \/ \E u \in CopyUsers : \E a \in AddActivities[u] : NewActivity(u, a)
  \/ AddTrackedUser("u2")

SpecAdd == InitOneUser /\ [][NextAdd]_vars

\* C38: the activities a user's first successful fetch returns are marked
\* seen and not handled: a fetch that answers while the user's trade window
\* is still empty (no fetch of this user has answered before) hands nothing
\* to the handlers and leaves the engine as it was, also when the initial
\* poll is over.
C38_FirstFetchIsSilent ==
  [][ ( /\ last'.op = "fetchUserTrades"
        /\ last'.ok
        /\ copyTrading.userTradeHistory[last'.user] = <<>> )
      => /\ last'.fetched \subseteq copyTrading'.seenTransactionHashes
         /\ last'.handled = <<>>
         /\ last'.executed = <<>>
         /\ UNCHANGED <<currentBalance, positions, tradeHistory>> ]_vars

---------------------------------------------------------------------------
(* The end of the initial-poll phase *)

\* cycle i began before the latest start(): the cycle a later start() made
\* is in flight behind it
BeganBeforeRestart(i) ==
  \E j \in (i + 1)..Len(cycles) : cycles[j].first

\* C39: the initial-poll phase a start() opens is ended by a poll cycle
\* that began at or after that start(): the step that clears isInitialPoll
\* is the end of a cycle that did not begin before the latest start().
C39_PhaseEndsWithItsOwnCycle ==
  [][ (copyTrading.isInitialPoll /\ ~copyTrading'.isInitialPoll) =>
         \E i \in 1..Len(cycles) :
            /\ cycles[i].pc = "sleep"
            /\ cycles' = RemoveAt(cycles, i)
            /\ ~BeganBeforeRestart(i) ]_vars

---------------------------------------------------------------------------
(* Overlapping redemption handlers *)

\* the redemption records of a trade log: SELLs at the settlement price
RedemptionRecords(hist) ==
  {i \in 1..Len(hist) : hist[i].action = "SELL" /\ hist[i].price = One}

\* C40: however the handlers of several REDEEM activities for a market
\* interleave, the position (opened once here, by h1) is redeemed at most
\* once: the call that finds it credits its settlement proceeds, adds its
\* PnL and appends one record; a call that finds it gone changes neither
\* the balance, nor realizedPnL, nor the trade log.
C40_RedeemedAtMostOnce ==
  [][ /\ Cardinality(RedemptionRecords(tradeHistory')) <= 1
      /\ Redeeming(last') =>
            IF positions["m1"] = NoPosition
            THEN UNCHANGED <<currentBalance, realizedPnL, tradeHistory>>
            ELSE LET w == last'.winners[1]
                     proceeds == IF w = 0 THEN positions["m1"].yesTokens
                                 ELSE positions["m1"].noTokens
                 IN  /\ Len(last'.winners) = 1
                     /\ currentBalance' = RAdd(currentBalance, proceeds)
                     /\ realizedPnL' =
                           RAdd(realizedPnL,
                                RedemptionPnL(positions["m1"], w))
                     /\ Len(tradeHistory') = Len(tradeHistory) + 1
                     /\ positions'["m1"] = NoPosition ]_vars

\* two handlers waited for market data at once; the first redeemed the 200
\* YES tokens at 1, the second was then told that NO had won and called the
\* engine for the position that is gone: nothing moved
C40_Witness ==
  /\ Redeeming(last)
  /\ last.op = "fetchMarketData"
  /\ last.winners = <<1>>
  /\ last.existingPosition # NoPosition
  /\ positions["m1"] = NoPosition
  /\ currentBalance = Usd(1100)
  /\ realizedPnL = Usd(100)
  /\ Cardinality(RedemptionRecords(tradeHistory)) = 1

====
